---------------------------- MODULE Spec2Model ----------------------------
(***************************************************************************)
(* A model of the te.js request-dispatch engine (route registry, matcher,  *)
(* dispatcher, error sender) and of its rate limiter.                       *)
(*                                                                         *)
(* Strings that the code inspects character by character (paths, segments, *)
(* parameter names) are sequences of one-character strings over a small    *)
(* alphabet: "/" and ":" are themselves, a letter or digit stands for a    *)
(* path word ("u" for users, "4" for 42, "i" for id, "q" for q).           *)
(***************************************************************************)
EXTENDS Integers, Sequences, FiniteSets, TLC

(***************************************************************************)
(* Bounds of the model.                                                    *)
(***************************************************************************)
MaxEndpoints == 2
MaxOps == 4
MaxInflight == 2
MaxConsumes == 3
MaxNow == 3000
MaxChain == 3
MaxFixedConsumes == 4
MaxCacheOps == 3
MaxCacheNow == 1000
MaxInitCalls == 3
MaxLockOps == 3
MaxThrows == 2

VARIABLES
  phase,              \* "startup" until takeoff(), then "serving"
  targets,            \* TargetRegistry.targets: sequence of Endpoint records
  globalMiddlewares,  \* TargetRegistry.globalMiddlewares
  targetMiddlewares,  \* Target.targetMiddlewares of the one Target object
  req,                \* the HTTP request being served (url, query, headers, body)
  pc,                 \* position of handler(req, res)
  match,              \* result of targetRegistry.aim(url)
  payload,            \* ammo.payload
  chain,              \* the chain built by executeChain
  i,                  \* executeChain's index of the next chain element
  frames,             \* one record per started next() invocation
  caught,             \* the error caught by handler's catch block
  unhandled,          \* a promise was rejected that nothing awaits
  res,                \* the ServerResponse: headersSent, writes, status
  hist,               \* observation of the run: what was started, sent, thrown
  rl,                 \* the rate limiter: options and algorithm
  store,              \* MemoryStorage.store: key -> item reference
  heap,               \* the stored objects, by reference
  now,                \* Date.now() in milliseconds
  calls,              \* in-flight consume() calls
  rlog,               \* decisions returned by consume, in order
  mw,                 \* the rate-limit middleware: its options and last run
  cache,              \* the CacheStore singleton: namespaces, sizes, locks
  clog,               \* the cache operations made so far and how they ended
  ops,                \* CacheStore operations in flight: position and lock
  db,                 \* the DatabaseManager: records and calls in flight
  boot                \* the application's start: target files, the listener

regvars == <<targets, globalMiddlewares, targetMiddlewares>>
reqvars == <<req, match, payload>>
chainvars == <<chain, i, frames>>
dvars == <<phase, targets, globalMiddlewares, targetMiddlewares, req, pc,
           match, payload, chain, i, frames, caught, unhandled, res, hist>>
rvars == <<rl, store, heap, now, calls, rlog, mw>>
cvars == <<cache, clog, ops>>
mvars == <<db, boot>>
vars == <<phase, targets, globalMiddlewares, targetMiddlewares, req, pc,
          match, payload, chain, i, frames, caught, unhandled, res, hist,
          rl, store, heap, now, calls, rlog, mw, cache, clog, ops, db, boot>>

(***************************************************************************)
(* Helpers on sequences and finite maps.                                   *)
(***************************************************************************)
EmptyMap == [x \in {} |-> <<>>]

\* Object.assign(a, b): keys of b overwrite keys of a
ObjectAssign(a, b) ==
  [k \in (DOMAIN a) \cup (DOMAIN b) |-> IF k \in DOMAIN b THEN b[k] ELSE a[k]]

SetMax(S) == CHOOSE x \in S : \A y \in S : y <= x

(***************************************************************************)
(* Path normalisation and matching.                                        *)
(***************************************************************************)
standardizePath(path) ==
  IF Len(path) = 0 THEN <<>>
  ELSE LET standardized == IF path[1] = "/" THEN path ELSE <<"/">> \o path
       IN  IF standardized[Len(standardized)] = "/"
           THEN SubSeq(standardized, 1, Len(standardized) - 1)
           ELSE standardized

\* Endpoint.setPath(base, path): the full path stored in the endpoint
setPath(base, path) ==
  LET fullPath == standardizePath(base) \o standardizePath(path)
  IN  IF Len(fullPath) = 0 THEN <<"/">> ELSE fullPath

\* str.split('/'): the pieces between the slashes, empty pieces included
RECURSIVE SplitFrom(_, _, _)
SplitFrom(str, k, cur) ==
  IF k > Len(str) THEN <<cur>>
  ELSE IF str[k] = "/" THEN <<cur>> \o SplitFrom(str, k + 1, <<>>)
  ELSE SplitFrom(str, k + 1, Append(cur, str[k]))

\* str.split('/').filter((s) => s.length > 0)
Segments(str) == SelectSeq(SplitFrom(str, 1, <<>>), LAMBDA s : Len(s) > 0)

NoParams == [ok |-> FALSE, params |-> EmptyMap]

\* matchParameterizedRoute without the comparison of the segment counts: the
\* pattern is matched against the first segments of the url
matchParameterizedRoute_Prefix(pattern, url) ==
  IF pattern = <<"/">> /\ url = <<"/">> THEN [ok |-> TRUE, params |-> EmptyMap]
  ELSE
    LET patternSegments == Segments(pattern)
        urlSegments == Segments(url)
        n == Len(patternSegments)
        isParam(k) == patternSegments[k][1] = ":"
        names == {Tail(patternSegments[k]) : k \in {j \in 1..n : isParam(j)}}
    IN  IF n > Len(urlSegments) THEN NoParams
        ELSE IF \E k \in 1..n : ~isParam(k) /\ patternSegments[k] # urlSegments[k]
             THEN NoParams
        ELSE [ok |-> TRUE,
              params |-> [nm \in names |->
                 urlSegments[SetMax({k \in 1..n :
                     isParam(k) /\ Tail(patternSegments[k]) = nm})]]]

matchParameterizedRoute(pattern, url) ==
  IF pattern = <<"/">> /\ url = <<"/">> THEN [ok |-> TRUE, params |-> EmptyMap]
  ELSE
    LET patternSegments == Segments(pattern)
        urlSegments == Segments(url)
        n == Len(patternSegments)
        isParam(k) == patternSegments[k][1] = ":"
        names == {Tail(patternSegments[k]) : k \in {j \in 1..n : isParam(j)}}
    IN  IF n # Len(urlSegments) THEN NoParams
        ELSE IF \E k \in 1..n : ~isParam(k) /\ patternSegments[k] # urlSegments[k]
             THEN NoParams
        ELSE [ok |-> TRUE,
              params |-> [nm \in names |->
                 urlSegments[SetMax({k \in 1..n :
                     isParam(k) /\ Tail(patternSegments[k]) = nm})]]]

NoMatch == [found |-> FALSE, idx |-> 0, params |-> EmptyMap]

\* aim with the parameterised loop run before the exact lookup
aim_ParamFirst(tg, endpoint) ==
  LET standardizedEndpoint == standardizePath(endpoint)
      exact == {k \in 1..Len(tg) : tg[k].path = standardizedEndpoint}
      param == {k \in 1..Len(tg) :
                  matchParameterizedRoute(tg[k].path, standardizedEndpoint).ok}
      first(S) == CHOOSE k \in S : \A j \in S : k <= j
  IN  IF param # {}
      THEN [found |-> TRUE, idx |-> first(param),
            params |-> matchParameterizedRoute(tg[first(param)].path,
                                               standardizedEndpoint).params]
      ELSE IF exact # {}
           THEN [found |-> TRUE, idx |-> first(exact), params |-> EmptyMap]
      ELSE NoMatch

\* TargetRegistry.aim(endpoint) over the registered endpoints tg
aim(tg, endpoint) ==
  LET standardizedEndpoint == standardizePath(endpoint)
      exact == {k \in 1..Len(tg) : tg[k].path = standardizedEndpoint}
      param == {k \in 1..Len(tg) :
                  matchParameterizedRoute(tg[k].path, standardizedEndpoint).ok}
      first(S) == CHOOSE k \in S : \A j \in S : k <= j
  IN  IF exact # {} THEN [found |-> TRUE, idx |-> first(exact), params |-> EmptyMap]
      ELSE IF param # {}
           THEN [found |-> TRUE, idx |-> first(param),
                 params |-> matchParameterizedRoute(tg[first(param)].path,
                                                    standardizedEndpoint).params]
      ELSE NoMatch


(***************************************************************************)
(* Values a step can raise or hand to ammo.throw.  Every value is a record *)
(* with the same fields so that values of different kinds compare.         *)
(***************************************************************************)
NoExc == [k |-> "ok", code |-> 0, msg |-> ""]
TejError(code, msg) == [k |-> "tej", code |-> code, msg |-> msg]
Error(msg) == [k |-> "err", code |-> 0, msg |-> msg]
Num(n) == [k |-> "num", code |-> n, msg |-> ""]
Str(s) == [k |-> "str", code |-> 0, msg |-> s]
Nullish == [k |-> "nullish", code |-> 0, msg |-> ""]

NaN == 0 - 1000001

\* parseInt(message) for the messages of the model
parseInt(msg) ==
  CASE msg = "404" -> 404
    [] msg = "42" -> 42
    [] OTHER -> NaN

\* utils/status-codes.js
isStatusCode(v) == v.k = "num" /\ v.code >= 100 /\ v.code <= 599

toStatusCode(msg) ==
  CASE msg \in {"Not Found", "not found"} -> 404
    [] msg \in {"Too Many Requests"} -> 429
    [] OTHER -> 0

toStatusMessage(code) ==
  CASE code = 400 -> "Bad Request"
    [] code = 404 -> "Not Found"
    [] code = 429 -> "Too Many Requests"
    [] code = 500 -> "Internal Server Error"
    [] OTHER -> ""

(***************************************************************************)
(* The response.  res.writeHead raises ERR_HTTP_HEADERS_SENT once the      *)
(* headers are out and a RangeError for a status outside 100..999; fire()  *)
(* calls writeHead, write and end in that order.                           *)
(***************************************************************************)
FreshRes == [headersSent |-> FALSE, writeHeads |-> 0, bodyWrites |-> 0,
             status |-> 0, body |-> "", by |-> "none"]

\* fire on a response object whose writeHead accepts a second call
fire_NoLatch(r, statusCode, data, by) ==
  IF statusCode < 100 \/ statusCode > 999
  THEN [res |-> r, exc |-> Error("ERR_HTTP_INVALID_STATUS_CODE")]
  ELSE [res |-> [headersSent |-> TRUE, writeHeads |-> r.writeHeads + 1,
                 bodyWrites |-> r.bodyWrites + 1, status |-> statusCode,
                 body |-> data, by |-> by],
        exc |-> NoExc]

\* ammo.fire(statusCode, data), sent on behalf of `by`: writeHead, write and
\* end of the response; writeHead raises once the headers are sent
fire(r, statusCode, data, by) ==
  IF r.headersSent
  THEN [res |-> r, exc |-> Error("ERR_HTTP_HEADERS_SENT")]
  ELSE IF statusCode < 100 \/ statusCode > 999
  THEN [res |-> r, exc |-> Error("ERR_HTTP_INVALID_STATUS_CODE")]
  ELSE [res |-> [headersSent |-> TRUE, writeHeads |-> r.writeHeads + 1,
                 bodyWrites |-> r.bodyWrites + 1, status |-> statusCode,
                 body |-> data, by |-> by],
        exc |-> NoExc]

\* value.toString() for the values of the model
toString(v) ==
  IF v.k = "num"
  THEN CASE v.code = 42 -> "42"
         [] v.code = 700 -> "700"
         [] OTHER -> "0"
  ELSE v.msg

\* ammo.throw(...args): args is the sequence of arguments
throw(r, args) ==
  IF Len(args) = 0 THEN fire(r, 500, "Internal Server Error", "error")
  ELSE LET a == args[1] IN
    IF isStatusCode(a)
    THEN fire(r, a.code,
              IF Len(args) > 1 /\ args[2].msg # "" THEN args[2].msg
              ELSE toStatusMessage(a.code), "error")
    ELSE IF a.k = "tej" THEN fire(r, a.code, a.msg, "error")
    ELSE IF a.k = "err"
    THEN IF parseInt(a.msg) # NaN
         THEN fire(r, parseInt(a.msg),
                   IF toStatusMessage(parseInt(a.msg)) # ""
                   THEN toStatusMessage(parseInt(a.msg))
                   ELSE toStatusMessage(500), "error")
         ELSE IF toStatusCode(a.msg) # 0
         THEN fire(r, toStatusCode(a.msg), a.msg, "error")
         ELSE fire(r, 500, a.msg, "error")
    ELSE IF a.k = "nullish"
    THEN [res |-> r, exc |-> Error("TypeError")]
    ELSE IF toStatusCode(a.msg) # 0
    THEN fire(r, toStatusCode(a.msg), toStatusMessage(toStatusCode(a.msg)), "error")
    ELSE fire(r, 500, toString(a), "error")

\* errorHandler(ammo, err) of the dispatcher
errorHandler(r, err) == throw(r, <<err>>)

(***************************************************************************)
(* Registration: functions are named; Arity is Function.length.            *)
(***************************************************************************)
Null == "null"

Arity(f) ==
  CASE f \in {"g1", "t1", "r1"} -> 2
    [] f = "h" -> 1
    [] f = "h2args" -> 2
    [] OTHER -> 0

isMiddlewareValid(f) == Arity(f) = 2 \/ Arity(f) = 3

isShootValid(f) == Arity(f) = 1

\* new Endpoint().setPath(base, path).setMiddlewares(middlewares).setHandler(shoot)
Endpoint(base, path, middlewares, shoot) ==
  [path |-> setPath(base, path),
   middlewares |-> SelectSeq(middlewares, isMiddlewareValid),
   handler |-> IF isShootValid(shoot) THEN shoot ELSE Null]

TargetBase == <<>>

\* Target.register(path, ...middlewares, shoot)
TargetRegister(path, middlewares, shoot) ==
  /\ phase = "startup"
  /\ Len(targets) < MaxEndpoints
  /\ targets' = Append(targets, Endpoint(TargetBase, path, middlewares, shoot))
  /\ hist' = [hist EXCEPT !.midairAt = Append(@, targetMiddlewares)]
  /\ UNCHANGED <<phase, globalMiddlewares, targetMiddlewares, reqvars, pc,
                 chainvars, caught, res>>
  /\ UNCHANGED <<unhandled, rvars, cvars, mvars>>

\* Target.midair(...middlewares)
TargetMidair(middlewares) ==
  /\ phase = "startup"
  /\ Len(targetMiddlewares) = 0
  /\ targetMiddlewares' =
        targetMiddlewares \o SelectSeq(middlewares, isMiddlewareValid)
  /\ UNCHANGED <<phase, targets, globalMiddlewares, reqvars, pc,
                 chainvars, caught, res, hist>>
  /\ UNCHANGED <<unhandled, rvars, cvars, mvars>>

\* Tejas.midair(...middlewares) -> TargetRegistry.addGlobalMiddleware
addGlobalMiddleware(middlewares) ==
  /\ phase = "startup"
  /\ Len(globalMiddlewares) = 0
  /\ globalMiddlewares' =
        globalMiddlewares \o SelectSeq(middlewares, isMiddlewareValid)
  /\ UNCHANGED <<phase, targets, targetMiddlewares, reqvars, pc,
                 chainvars, caught, res, hist>>
  /\ UNCHANGED <<unhandled, rvars, cvars, mvars>>

\* Tejas.takeoff(): the listener starts
takeoff ==
  /\ phase = "startup"
  /\ phase' = "serving"
  /\ UNCHANGED <<regvars, reqvars, pc, chainvars, caught, res, hist>>
  /\ UNCHANGED <<unhandled, rvars, cvars, mvars>>

(***************************************************************************)
(* A request.  url is the path part of req.url, query its decoded query    *)
(* string, ct the Content-Type header ("none" when the header is absent),  *)
(* body the decoded body.                                                  *)
(***************************************************************************)
NoReq == [url |-> <<>>, query |-> EmptyMap, ct |-> "none", body |-> EmptyMap,
          chunks |-> <<>>]

FreshHist == [started |-> <<>>, handlerPayload |-> EmptyMap, handlerRan |-> FALSE,
              senderCalls |-> 0, errorWrites |-> 0, signalled |-> FALSE,
              enhanced |-> FALSE, midairAt |-> <<>>,
              bodyBytes |-> 0, destroyed |-> FALSE, senderFailed |-> FALSE,
              thrown |-> <<>>, noConnection |-> FALSE]

\* the server hands a request to handler(req, res)
Receive(url, query, ct, body, chunks) ==
  /\ phase = "serving"
  /\ pc = "idle"
  /\ req' = [url |-> url, query |-> query, ct |-> ct, body |-> body,
             chunks |-> chunks]
  /\ pc' = "aim"
  /\ UNCHANGED <<phase, regvars, match, payload, chainvars, caught, res, hist>>
  /\ UNCHANGED <<unhandled, rvars, cvars, mvars>>

\* env('BODY_MAX_SIZE') of the deployments of the model
BODY_MAX_SIZE == 100

\* req.on('data', ...) for the chunks of the request, each given by its
\* length: the bytes appended to body, and whether the size passed maxSize
RECURSIVE readBody(_, _, _)
readBody(chunks, maxSize, size) ==
  IF chunks = <<>> THEN [over |-> FALSE, bytes |-> size]
  ELSE IF size + Head(chunks) > maxSize THEN [over |-> TRUE, bytes |-> size]
  ELSE readBody(Tail(chunks), maxSize, size + Head(chunks))

\* parseJSONRequestBody, parseUrlEncodedData and parseFormData: the body is
\* read under the cap and decoded at 'end'; on overflow the promise is
\* rejected and req.destroy() is called, which destroys the socket of a
\* request whose body has not been read to its end
parseRequestBody(r) ==
  LET rd == readBody(r.chunks, BODY_MAX_SIZE, 0) IN
    IF rd.over
    THEN [exc |-> TejError(413, "Request entity too large"), body |-> EmptyMap,
          bytes |-> rd.bytes, destroyed |-> TRUE]
    ELSE IF rd.bytes = 0
    THEN [exc |-> NoExc, body |-> EmptyMap, bytes |-> 0, destroyed |-> FALSE]
    ELSE [exc |-> NoExc, body |-> r.body, bytes |-> rd.bytes,
          destroyed |-> FALSE]

\* String.prototype.toLowerCase for the header values of the model
toLowerCase(str) ==
  CASE str = "Application/JSON" -> "application/json"
    [] OTHER -> str

\* contentType.startsWith('multipart/form-data')
IsMultipart(contentType) ==
  contentType \in {"multipart/form-data", "multipart/form-data; boundary=x"}

\* parseDataBasedOnContentType with every content type read as a body
parseDataBasedOnContentType_AnyType(r) ==
  IF r.ct = "none"
  THEN [exc |-> TejError(400, "Content-Type header is missing"),
        body |-> EmptyMap, bytes |-> 0, destroyed |-> FALSE]
  ELSE parseRequestBody(r)

\* parseDataBasedOnContentType(req): the decoded body, or the error raised
parseDataBasedOnContentType(r) ==
  IF r.ct = "none"
  THEN [exc |-> TejError(400, "Content-Type header is missing"),
        body |-> EmptyMap, bytes |-> 0, destroyed |-> FALSE]
  ELSE LET contentType == toLowerCase(r.ct) IN
    IF contentType \in {"application/json", "application/x-www-form-urlencoded"}
    THEN parseRequestBody(r)
    ELSE IF IsMultipart(contentType) THEN parseRequestBody(r)
    ELSE [exc |-> TejError(415, "Unsupported content type"),
          body |-> EmptyMap, bytes |-> 0, destroyed |-> FALSE]

\* generatePayload with the query assigned over the body
generatePayload_QueryWins(r) ==
  LET parsed == parseDataBasedOnContentType(r)
  IN  [exc |-> parsed.exc, obj |-> ObjectAssign(parsed.body, r.query),
       bytes |-> parsed.bytes, destroyed |-> parsed.destroyed]

\* generatePayload(req): query parameters, then the body assigned over them
generatePayload(r) ==
  LET parsed == parseDataBasedOnContentType(r)
  IN  [exc |-> parsed.exc, obj |-> ObjectAssign(r.query, parsed.body),
       bytes |-> parsed.bytes, destroyed |-> parsed.destroyed]

\* handler(req, res) up to its first await: aim, and the two miss branches
Dispatch ==
  /\ pc = "aim"
  /\ LET m == aim(targets, req.url) IN
       /\ match' = m
       /\ IF m.found
          THEN /\ pc' = "enhance"
               /\ UNCHANGED <<res, hist, caught>>
          ELSE IF req.url = <<"/">> /\ DOMAIN req.query = {}
          THEN LET r == fire(res, 200, "html", "entry") IN
                 /\ res' = r.res
                 /\ pc' = IF r.exc = NoExc THEN "done" ELSE "catch"
                 /\ caught' = r.exc
                 /\ UNCHANGED hist
          ELSE LET r == errorHandler(res, TejError(404, "URL not found")) IN
                 /\ res' = r.res
                 /\ pc' = IF r.exc = NoExc THEN "done" ELSE "catch"
                 /\ caught' = r.exc
                 /\ hist' = [hist EXCEPT
                       !.senderCalls = @ + 1,
                       !.errorWrites = @ + (IF r.exc = NoExc THEN 1 ELSE 0),
                       !.senderFailed = @ \/ (r.exc # NoExc /\ ~res.headersSent)]
  /\ UNCHANGED <<phase, regvars, req, payload, chainvars>>
  /\ UNCHANGED <<unhandled, rvars, cvars, mvars>>

\* await ammo.enhance(): enhance(ammo) sets ammo.payload = generatePayload(req)
Enhance ==
  /\ pc = "enhance"
  /\ LET g == generatePayload(req) IN
       IF g.exc = NoExc
       THEN /\ payload' = g.obj
            /\ pc' = "chain"
            /\ hist' = [hist EXCEPT !.enhanced = TRUE, !.bodyBytes = g.bytes]
            /\ UNCHANGED caught
       ELSE /\ pc' = "catch"
            /\ caught' = g.exc
            /\ hist' = [hist EXCEPT !.destroyed = g.destroyed]
            /\ UNCHANGED payload
  /\ UNCHANGED <<phase, regvars, req, match, chainvars, res>>
  /\ UNCHANGED <<unhandled, rvars, cvars, mvars>>

\* the chain executeChain(target, ammo) builds
BuildChain(globals, target) ==
  Append(globals \o target.middlewares, target.handler)

Frame(el, caller, awaited) ==
  [el |-> el, st |-> "run", caller |-> caller, awaited |-> awaited,
   ops |-> 0, exc |-> NoExc]

\* next() without the test of the response at its entry
NextOutcome_NoSentCheck(r, ch, idx) ==
  IF idx + 1 > Len(ch) THEN "TypeError"
  ELSE IF ch[idx + 1] = Null THEN "TypeError"
  ELSE "run"

\* what a call of next() does: return at once, fail on chain[i], or run chain[i]
NextOutcome(r, ch, idx) ==
  IF r.headersSent THEN "return"
  ELSE IF idx + 1 > Len(ch) THEN "TypeError"
  ELSE IF ch[idx + 1] = Null THEN "TypeError"
  ELSE "run"

NoteStart(h, ch, idx, pl) ==
  [h EXCEPT !.started = Append(@, idx),
            !.handlerRan = @ \/ idx = Len(ch),
            !.handlerPayload = IF idx = Len(ch) THEN pl ELSE @]

\* handler continues after enhance: route parameters are assigned over the
\* payload, then executeChain builds the chain and awaits the first next()
executeChain ==
  /\ pc = "chain"
  /\ LET target == targets[match.idx]
         ch == BuildChain(globalMiddlewares, target)
         pl == IF DOMAIN match.params # {}
               THEN ObjectAssign(payload, match.params) ELSE payload
     IN /\ payload' = pl
        /\ chain' = ch
        /\ IF NextOutcome(res, ch, 0) = "run"
           THEN /\ i' = 1
                /\ frames' = <<Frame(ch[1], 0, TRUE)>>
                /\ pc' = "await"
                /\ hist' = NoteStart(hist, ch, 1, pl)
                /\ UNCHANGED caught
           ELSE /\ i' = 1
                /\ frames' = <<>>
                /\ pc' = "catch"
                /\ caught' = Error("TypeError")
                /\ UNCHANGED hist
  /\ UNCHANGED <<phase, regvars, req, match, res>>
  /\ UNCHANGED <<unhandled, rvars, cvars, mvars>>

RECURSIVE SumOps(_, _)
SumOps(fr, k) == IF k = 0 THEN 0 ELSE fr[k].ops + SumOps(fr, k - 1)

\* the steps of one request make at most MaxOps calls into the framework
Budget == SumOps(frames, Len(frames)) < MaxOps

Running(n) == pc # "crashed" /\ n \in DOMAIN frames /\ frames[n].st = "run"

\* a step calls ammo.fire(200, data)
StepFire(n) ==
  /\ Running(n)
  /\ Budget
  /\ LET r == fire(res, 200, "out", "step") IN
       /\ res' = r.res
       /\ frames' = [frames EXCEPT ![n] =
            IF r.exc = NoExc THEN [@ EXCEPT !.ops = @ + 1]
            ELSE [@ EXCEPT !.st = "rejected", !.exc = r.exc]]
  /\ UNCHANGED <<phase, regvars, reqvars, pc, chain, i, caught, hist>>
  /\ UNCHANGED <<unhandled, rvars, cvars, mvars>>

\* a step calls ammo.throw(v)
StepThrow(n, v) ==
  /\ Running(n)
  /\ Budget
  /\ LET r == throw(res, <<v>>) IN
       /\ res' = r.res
       /\ frames' = [frames EXCEPT ![n] =
            IF r.exc = NoExc THEN [@ EXCEPT !.ops = @ + 1]
            ELSE [@ EXCEPT !.st = "rejected", !.exc = r.exc]]
       /\ hist' = [hist EXCEPT
            !.signalled = @ \/ ~res.headersSent,
            !.senderCalls = @ + 1,
            !.errorWrites = @ + (IF r.exc = NoExc THEN 1 ELSE 0),
            !.senderFailed = @ \/ (r.exc # NoExc /\ ~res.headersSent)]
  /\ UNCHANGED <<phase, regvars, reqvars, pc, chain, i, caught>>
  /\ UNCHANGED <<unhandled, rvars, cvars, mvars>>

\* a step raises v (or its promise rejects with v)
StepRaise(n, v) ==
  /\ Running(n)
  /\ frames' = [frames EXCEPT ![n] = [@ EXCEPT !.st = "rejected", !.exc = v]]
  /\ hist' = [hist EXCEPT !.signalled = @ \/ ~res.headersSent]
  /\ UNCHANGED <<phase, regvars, reqvars, pc, chain, i, caught, res>>
  /\ UNCHANGED <<unhandled, rvars, cvars, mvars>>

\* a step returns (its promise resolves)
StepReturn(n) ==
  /\ Running(n)
  /\ frames' = [frames EXCEPT ![n] = [@ EXCEPT !.st = "resolved"]]
  /\ UNCHANGED <<phase, regvars, reqvars, pc, chain, i, caught, res, hist>>
  /\ UNCHANGED <<unhandled, rvars, cvars, mvars>>

\* a step calls next(), awaiting it or not
StepNext(n, awaited) ==
  /\ Running(n)
  /\ Budget
  /\ LET out == NextOutcome(res, chain, i) IN
       CASE out = "return" ->
              /\ frames' = [frames EXCEPT ![n] = [@ EXCEPT !.ops = @ + 1]]
              /\ UNCHANGED <<i, pc, hist, unhandled>>
         [] out = "TypeError" ->
              /\ i' = i + 1
              /\ IF awaited
                 THEN /\ frames' = [frames EXCEPT ![n] =
                            [@ EXCEPT !.st = "rejected", !.exc = Error("TypeError")]]
                      /\ UNCHANGED <<pc, unhandled>>
                 ELSE /\ unhandled' = TRUE
                      /\ frames' = [frames EXCEPT ![n] =
                            [@ EXCEPT !.ops = @ + 1]]
                      /\ UNCHANGED pc
              /\ UNCHANGED hist
         [] out = "run" ->
              /\ i' = i + 1
              /\ frames' = Append(
                   [frames EXCEPT ![n] =
                      [@ EXCEPT !.ops = @ + 1,
                                !.st = IF awaited THEN "wait" ELSE "run"]],
                   Frame(chain[i + 1], n, awaited))
              /\ hist' = NoteStart(hist, chain, i + 1, payload)
              /\ UNCHANGED <<pc, unhandled>>
  /\ UNCHANGED <<phase, regvars, reqvars, chain, caught, res>>
  /\ UNCHANGED <<rvars, cvars, mvars>>

\* the promise of invocation n settles: whoever awaits it goes on
Settle(fr, n, exc) ==
  [k \in DOMAIN fr |->
     IF k = n THEN [fr[k] EXCEPT !.st = "done"]
     ELSE IF k = fr[n].caller /\ fr[n].awaited
     THEN IF exc = NoExc THEN [fr[k] EXCEPT !.st = "run"]
          ELSE [fr[k] EXCEPT !.st = "rejected", !.exc = exc]
     ELSE fr[k]]

\* how handler's position moves when invocation n settles with exc
SettlePc(fr, n, exc) ==
  IF exc = NoExc
  THEN IF fr[n].caller = 0 THEN "done" ELSE pc
  ELSE IF fr[n].caller = 0 THEN "catch"
  ELSE pc

\* the promise of invocation n is rejected and nothing awaits it
Unawaited(fr, n, exc) == exc # NoExc /\ fr[n].caller # 0 /\ ~fr[n].awaited

\* next() resumes after `await middleware(...)` returned normally
NextResume(n) ==
  /\ pc # "crashed"
  /\ n \in DOMAIN frames
  /\ frames[n].st = "resolved"
  /\ frames' = Settle(frames, n, NoExc)
  /\ pc' = SettlePc(frames, n, NoExc)
  /\ UNCHANGED <<phase, regvars, reqvars, chain, i, caught, res, hist>>
  /\ UNCHANGED <<unhandled, rvars, cvars, mvars>>

\* next() catches what the middleware raised
NextCatch(n) ==
  /\ pc # "crashed"
  /\ n \in DOMAIN frames
  /\ frames[n].st = "rejected"
  /\ IF ~res.headersSent
     THEN LET r == errorHandler(res, frames[n].exc) IN
            /\ res' = r.res
            /\ frames' = Settle(frames, n, r.exc)
            /\ pc' = SettlePc(frames, n, r.exc)
            /\ unhandled' = (unhandled \/ Unawaited(frames, n, r.exc))
            /\ caught' = IF r.exc # NoExc /\ frames[n].caller = 0
                         THEN r.exc ELSE caught
            /\ hist' = [hist EXCEPT
                 !.senderCalls = @ + 1,
                 !.errorWrites = @ + (IF r.exc = NoExc THEN 1 ELSE 0),
                 !.senderFailed = @ \/ (r.exc # NoExc /\ ~res.headersSent)]
     ELSE /\ frames' = Settle(frames, n, NoExc)
          /\ pc' = SettlePc(frames, n, NoExc)
          /\ UNCHANGED <<res, caught, hist, unhandled>>
  /\ UNCHANGED <<phase, regvars, reqvars, chain, i>>
  /\ UNCHANGED <<rvars, cvars, mvars>>

\* handler's catch block: errorHandler(ammo, err)
HandlerCatch ==
  /\ pc = "catch"
  /\ LET r == errorHandler(res, caught) IN
       /\ res' = r.res
       /\ pc' = "done"
       /\ unhandled' = (unhandled \/ r.exc # NoExc)
       /\ hist' = [hist EXCEPT
            !.senderCalls = @ + 1,
            !.errorWrites = @ + (IF r.exc = NoExc THEN 1 ELSE 0),
            !.senderFailed = @ \/ (r.exc # NoExc /\ ~res.headersSent)]
  /\ UNCHANGED <<phase, regvars, reqvars, chainvars, caught>>
  /\ UNCHANGED <<rvars, cvars, mvars>>

\* Node ends the process on an unhandled rejection
ProcessExit ==
  /\ unhandled
  /\ pc # "crashed"
  /\ pc' = "crashed"
  /\ UNCHANGED <<phase, regvars, reqvars, chainvars, caught, res, hist>>
  /\ UNCHANGED <<unhandled, rvars, cvars, mvars>>

(***************************************************************************)
(* The error sender alone: an Ammo over a fresh response, and calls of     *)
(* ammo.throw on it.  hist.thrown holds the arguments of the last call and *)
(* caught what the call raised.                                            *)
(***************************************************************************)
\* new Ammo(req, res) for a new request
AmmoNew ==
  /\ res' = FreshRes
  /\ caught' = NoExc
  /\ hist' = FreshHist
  /\ UNCHANGED <<phase, regvars, reqvars, pc, chainvars>>
  /\ UNCHANGED <<unhandled, rvars, cvars, mvars>>

\* ammo.throw(...args)
AmmoThrow(args) ==
  /\ hist.senderCalls < MaxThrows
  /\ LET r == throw(res, args) IN
       /\ res' = r.res
       /\ caught' = r.exc
       /\ hist' = [hist EXCEPT
            !.thrown = args,
            !.senderCalls = @ + 1,
            !.errorWrites = @ + (IF r.exc = NoExc THEN 1 ELSE 0),
            !.senderFailed = @ \/ (r.exc # NoExc /\ ~res.headersSent)]
  /\ UNCHANGED <<phase, regvars, reqvars, pc, chainvars>>
  /\ UNCHANGED <<unhandled, rvars, cvars, mvars>>

(***************************************************************************)
(* Inputs of the dispatcher model.                                         *)
(***************************************************************************)
K(c) == <<c>>

PUsersId == <<"/", "u", "/", ":", "i">>

\* the arguments of the Target.register calls of the routing model
RegInputs ==
  { [path |-> <<"/">>, middlewares |-> <<>>, shoot |-> "h"],
    [path |-> PUsersId, middlewares |-> <<"r1">>, shoot |-> "h"],
    [path |-> <<"/", "u", "/", "m">>, middlewares |-> <<>>, shoot |-> "h"],
    [path |-> <<"/", "u", "/", "/">>, middlewares |-> <<>>, shoot |-> "h"],
    [path |-> <<"/", ":", "x">>, middlewares |-> <<>>, shoot |-> "h2args"],
    [path |-> <<"u">>, middlewares |-> <<"bad0">>, shoot |-> "h"] }

ReqPaths == { <<"/">>,
              <<"/", "u", "/", "4">>,
              <<"/", "u", "/", "m">>,
              <<"/", "u", "/">>,
              <<"/", "u">>,
              <<"/", "z", "/", "z", "/", "z">> }

Q1 == (K("q") :> K("1"))
Q3 == (K("q") :> K("1")) @@ (K("i") :> K("9")) @@ (K("b") :> K("7"))
B2 == (K("i") :> K("8")) @@ (K("b") :> K("2"))
JSON == "application/json"

\* query string, Content-Type header and body of the requests of the model
ReqShapes ==
  { [query |-> EmptyMap, ct |-> "none", body |-> EmptyMap, chunks |-> <<>>],
    [query |-> Q1, ct |-> "none", body |-> EmptyMap, chunks |-> <<>>],
    [query |-> Q1, ct |-> JSON, body |-> EmptyMap, chunks |-> <<>>],
    [query |-> Q1, ct |-> JSON, body |-> B2, chunks |-> <<60>>],
    [query |-> Q3, ct |-> JSON, body |-> B2, chunks |-> <<60, 40>>],
    [query |-> Q3, ct |-> "text/xml", body |-> EmptyMap, chunks |-> <<>>],
    [query |-> Q1, ct |-> JSON, body |-> B2, chunks |-> <<200>>],
    [query |-> Q1, ct |-> "Application/JSON", body |-> B2, chunks |-> <<60, 60>>],
    [query |-> EmptyMap, ct |-> "multipart/form-data; boundary=x",
     body |-> B2, chunks |-> <<60, 41>>],
    [query |-> EmptyMap, ct |-> "text/plain", body |-> B2, chunks |-> <<200>>] }

ReqInputs ==
  { [url |-> u, query |-> sh.query, ct |-> sh.ct, body |-> sh.body,
     chunks |-> sh.chunks] :
      u \in ReqPaths, sh \in ReqShapes }

\* the registrations and requests of the chain model: one route, all the
\* shapes of chain
ChainRegInputs ==
  { [path |-> PUsersId, middlewares |-> <<"r1">>, shoot |-> "h"],
    [path |-> PUsersId, middlewares |-> <<>>, shoot |-> "h"],
    [path |-> PUsersId, middlewares |-> <<>>, shoot |-> "h2args"] }

ChainReqInputs ==
  { [url |-> <<"/", "u", "/", "4">>, query |-> Q1, ct |-> JSON,
     body |-> EmptyMap, chunks |-> <<>>],
    [url |-> <<"/", "u", "/", "4">>, query |-> Q1, ct |-> "none",
     body |-> EmptyMap, chunks |-> <<>>],
    [url |-> <<"/">>, query |-> EmptyMap, ct |-> "none",
     body |-> EmptyMap, chunks |-> <<>>],
    [url |-> <<"/", "u">>, query |-> EmptyMap, ct |-> JSON,
     body |-> EmptyMap, chunks |-> <<>>] }

\* what the steps of the model raise, and what they hand to ammo.throw
RaiseVals == {Error("boom"), Nullish}
ThrowVals == {Num(404), Nullish}

(***************************************************************************)
(* The rate limiter.  Times are in milliseconds, windows in seconds, as in *)
(* the code.  A sliding-window weight w is kept as the integer 2 * w, so   *)
(* that the weights 0, 0.5 and 1 are 0, 1 and 2.                           *)
(***************************************************************************)
DefaultMaxRequests == 60
DefaultTimeWindowSeconds == 60

\* the value of an object key that was never given
Undefined == 0 - 1000000

\* JavaScript arithmetic and comparison on numbers, NaN and undefined
IsNum(x) == x # NaN /\ x # Undefined
Plus(a, b) == IF IsNum(a) /\ IsNum(b) THEN a + b ELSE NaN
Minus(a, b) == IF IsNum(a) /\ IsNum(b) THEN a - b ELSE NaN
Times(a, b) == IF IsNum(a) /\ IsNum(b) THEN a * b ELSE NaN
\* Math.floor(a / b) for b > 0
FloorDiv(a, b) == IF IsNum(a) /\ IsNum(b) THEN a \div b ELSE NaN
GE(a, b) == IsNum(a) /\ IsNum(b) /\ a >= b
LT(a, b) == IsNum(a) /\ IsNum(b) /\ a < b

\* o[k], undefined when o has no key k
Opt(o, k) == IF k \in DOMAIN o THEN o[k] ELSE Undefined

\* { k: dflt, ...o }: the default is kept only when o has no key k at all
Spread(o, k, dflt) == IF k \in DOMAIN o THEN o[k] ELSE dflt

NoLimiter ==
  [algorithm |-> "none",
   options |-> [maxRequests |-> 0, timeWindowSeconds |-> 0],
   tokenBucketOptions |-> [burstSize |-> 0, refillNum |-> 0, refillDen |-> 1],
   slidingWindowOptions |-> [granularity |-> 0,
                             weights |-> [current |-> 0, previous |-> 0]],
   fixedWindowOptions |-> [strictWindow |-> FALSE]]

\* new RateLimiter(options) reached through the constructor of the class of
\* `algorithm`, which puts an empty config object where none was given
RateLimiter(algorithm, options, config) ==
  LET maxRequests == Spread(options, "maxRequests", DefaultMaxRequests)
      timeWindowSeconds ==
        Spread(options, "timeWindowSeconds", DefaultTimeWindowSeconds)
  IN [algorithm |-> algorithm,
      options |-> [maxRequests |-> maxRequests,
                   timeWindowSeconds |-> timeWindowSeconds],
      tokenBucketOptions |->
        [burstSize |-> Spread(config, "burstSize", maxRequests),
         refillNum |-> Spread(config, "refillRate", maxRequests),
         refillDen |-> IF "refillRate" \in DOMAIN config THEN 1
                       ELSE timeWindowSeconds],
      slidingWindowOptions |->
        [granularity |-> Spread(config, "granularity", 1),
         weights |-> Spread(config, "weights",
                            [current |-> 2, previous |-> 0])],
      fixedWindowOptions |->
        [strictWindow |-> Spread(config, "strictWindow", FALSE)]]

\* rateLimiter(options) of the middleware factory: the limiter it creates
rateLimiter(options) ==
  LET algorithm == Spread(options, "algorithm", "sliding-window")
      limiterConfig ==
        [maxRequests |-> Opt(options, "maxRequests"),
         timeWindowSeconds |-> Opt(options, "timeWindowSeconds"),
         store |-> "memory"]
  IN RateLimiter(algorithm, limiterConfig,
                 Spread(options, "algorithmOptions", EmptyMap))

\* getAlgorithmOptions(type): found is FALSE for the null of the default case
getAlgorithmOptions(limiter, type) ==
  CASE type = "token-bucket" ->
         [found |-> TRUE, kind |-> "token-bucket"]
    [] type = "sliding-window" ->
         [found |-> TRUE, kind |-> "sliding-window"]
    [] type = "fixed-window" ->
         [found |-> TRUE, kind |-> "fixed-window"]
    [] OTHER -> [found |-> FALSE, kind |-> "null"]

(***************************************************************************)
(* MemoryStorage.  The Map holds, per key, a reference to the stored       *)
(* object and the expiry time; get hands out the reference itself.         *)
(***************************************************************************)
Keys == {"ip1"}
MaxRefs == MaxInflight + 2
NoItem == [ref |-> 0, expireAt |-> 0]
NoObj == [counter |-> 0, timestamps |-> <<>>, start |-> 0]

\* MemoryStorage.get(key) at time t: the Map afterwards and the reference
get(st, key, t) ==
  IF st[key].ref = 0 THEN [store |-> st, ref |-> 0]
  ELSE IF LT(st[key].expireAt, t)
  THEN [store |-> [st EXCEPT ![key] = NoItem], ref |-> 0]
  ELSE [store |-> st, ref |-> st[key].ref]

\* MemoryStorage.set(key, value, ttl) at time t
set(st, key, ref, ttl, t) ==
  [st EXCEPT ![key] = [ref |-> ref, expireAt |-> Plus(t, Times(ttl, 1000))]]

\* references held by the Map or by a consume call in flight
Used(st, cl) ==
  ({st[k].ref : k \in Keys} \cup {cl[c].ref : c \in DOMAIN cl}) \ {0}

\* the reference of a newly created object
NewRef(st, cl) ==
  CHOOSE r \in 1..MaxRefs :
    r \notin Used(st, cl) /\ \A q \in 1..(r - 1) : q \in Used(st, cl)

\* objects nothing refers to any more are gone
Collect(h, st, cl) ==
  [r \in 1..MaxRefs |-> IF r \in Used(st, cl) THEN h[r] ELSE NoObj]

Decision(kind, remainingRequests, resetTime) ==
  [kind |-> kind, remainingRequests |-> remainingRequests,
   resetTime |-> resetTime]

Threw == Decision("threw", 0, 0)

\* SlidingWindowRateLimiter.consume after `await this.storage.get(key)`:
\* cl is the call (its `now` and `stored`), t the clock when it resumes
SlidingWindowConsume(limiter, h, st, cl, calling, t) ==
  LET found == getAlgorithmOptions(limiter, "sliding-window").found
      options == limiter.slidingWindowOptions
      maxRequests == limiter.options.maxRequests
      timeWindowSeconds == limiter.options.timeWindowSeconds
      granule == Times(options.granularity, 1000)
      currentWindowStart == Times(FloorDiv(cl.now, granule), granule)
      previousWindowStart ==
        Minus(currentWindowStart, Times(timeWindowSeconds, 1000))
      stored == h[cl.ref]
      InCurrent(ts) == GE(ts, currentWindowStart)
      InPrevious(ts) == GE(ts, previousWindowStart) /\ LT(ts, currentWindowStart)
      Kept(ts) == GE(ts, previousWindowStart)
      weightedCount2 ==
        Len(SelectSeq(stored.timestamps, InCurrent)) * options.weights.current
          + Len(SelectSeq(stored.timestamps, InPrevious))
              * options.weights.previous
      r == NewRef(st, calling)
  IN  IF ~found THEN [heap |-> h, store |-> st, decision |-> Threw]
      ELSE IF cl.ref = 0
      THEN [heap |-> [h EXCEPT ![r] =
                        [counter |-> 1, timestamps |-> <<cl.now>>,
                         start |-> currentWindowStart]],
            store |-> set(st, cl.key, r, timeWindowSeconds, t),
            decision |-> Decision("allowed", Minus(maxRequests, 1),
                           Plus(FloorDiv(cl.now, 1000), timeWindowSeconds))]
      ELSE IF GE(weightedCount2, Times(2, maxRequests))
      THEN [heap |-> h, store |-> st,
            decision |-> Decision("rejected", 0,
                           Plus(FloorDiv(currentWindowStart, 1000),
                                timeWindowSeconds))]
      ELSE [heap |-> [h EXCEPT ![cl.ref] =
                        [@ EXCEPT
                           !.timestamps =
                              Append(SelectSeq(stored.timestamps, Kept), cl.now),
                           !.start = currentWindowStart]],
            store |-> set(st, cl.key, cl.ref, timeWindowSeconds, t),
            decision |-> Decision("allowed",
                           FloorDiv(Minus(Minus(Times(2, maxRequests),
                                                weightedCount2), 2), 2),
                           Plus(FloorDiv(currentWindowStart, 1000),
                                timeWindowSeconds))]

\* the fixed window with the full-window test off by one: > for >=
FixedWindowConsume_OffByOne(limiter, h, st, cl, calling, t) ==
  LET found == getAlgorithmOptions(limiter, "fixed-window").found
      options == limiter.fixedWindowOptions
      maxRequests == limiter.options.maxRequests
      timeWindowSeconds == limiter.options.timeWindowSeconds
      windowMs == Times(timeWindowSeconds, 1000)
      windowStart == IF options.strictWindow
                     THEN Times(FloorDiv(cl.now, windowMs), windowMs)
                     ELSE cl.now
      stored == h[cl.ref]
      r == NewRef(st, calling)
      fresh ==
        [heap |-> [h EXCEPT ![r] =
                     [counter |-> 1, timestamps |-> <<>>, start |-> windowStart]],
         store |-> set(st, cl.key, r, timeWindowSeconds, t),
         decision |-> Decision("allowed", Minus(maxRequests, 1),
                        Plus(FloorDiv(windowStart, 1000), timeWindowSeconds))]
  IN  IF ~found THEN [heap |-> h, store |-> st, decision |-> Threw]
      ELSE IF cl.ref = 0 THEN fresh
      ELSE IF options.strictWindow /\ LT(stored.start, windowStart) THEN fresh
      ELSE IF GE(stored.counter, maxRequests + 1)
      THEN [heap |-> h, store |-> st,
            decision |-> Decision("rejected", 0,
                           Plus(FloorDiv(stored.start, 1000), timeWindowSeconds))]
      ELSE [heap |-> [h EXCEPT ![cl.ref] = [@ EXCEPT !.counter = @ + 1]],
            store |-> set(st, cl.key, cl.ref, timeWindowSeconds, t),
            decision |-> Decision("allowed",
                           Minus(maxRequests, stored.counter + 1),
                           Plus(FloorDiv(stored.start, 1000), timeWindowSeconds))]

\* FixedWindowRateLimiter.consume after `await this.storage.get(key)`
FixedWindowConsume(limiter, h, st, cl, calling, t) ==
  LET found == getAlgorithmOptions(limiter, "fixed-window").found
      options == limiter.fixedWindowOptions
      maxRequests == limiter.options.maxRequests
      timeWindowSeconds == limiter.options.timeWindowSeconds
      windowMs == Times(timeWindowSeconds, 1000)
      windowStart == IF options.strictWindow
                     THEN Times(FloorDiv(cl.now, windowMs), windowMs)
                     ELSE cl.now
      stored == h[cl.ref]
      r == NewRef(st, calling)
      fresh ==
        [heap |-> [h EXCEPT ![r] =
                     [counter |-> 1, timestamps |-> <<>>, start |-> windowStart]],
         store |-> set(st, cl.key, r, timeWindowSeconds, t),
         decision |-> Decision("allowed", Minus(maxRequests, 1),
                        Plus(FloorDiv(windowStart, 1000), timeWindowSeconds))]
  IN  IF ~found THEN [heap |-> h, store |-> st, decision |-> Threw]
      ELSE IF cl.ref = 0 THEN fresh
      ELSE IF options.strictWindow /\ LT(stored.start, windowStart) THEN fresh
      ELSE IF GE(stored.counter, maxRequests)
      THEN [heap |-> h, store |-> st,
            decision |-> Decision("rejected", 0,
                           Plus(FloorDiv(stored.start, 1000), timeWindowSeconds))]
      ELSE [heap |-> [h EXCEPT ![cl.ref] = [@ EXCEPT !.counter = @ + 1]],
            store |-> set(st, cl.key, cl.ref, timeWindowSeconds, t),
            decision |-> Decision("allowed",
                           Minus(maxRequests, stored.counter + 1),
                           Plus(FloorDiv(stored.start, 1000), timeWindowSeconds))]

\* Math.ceil(a / b) for b > 0
CeilDiv(a, b) == 0 - ((0 - a) \div b)

\* TokenBucketRateLimiter.consume after `await this.storage.get(key)`; the
\* stored object keeps tokens in counter and lastRefill in start
TokenBucketConsume(limiter, h, st, cl, calling, t) ==
  LET found == getAlgorithmOptions(limiter, "tokenBucketConfig").found
      options == limiter.tokenBucketOptions
      timeWindowSeconds == limiter.options.timeWindowSeconds
      stored == h[cl.ref]
      r == NewRef(st, calling)
      timePassed == cl.now - stored.start
      refillTokens ==
        FloorDiv(Times(timePassed, options.refillNum),
                 Times(options.refillDen, 1000))
      sum == Plus(stored.counter, refillTokens)
      tokens == IF LT(sum, options.burstSize) THEN sum ELSE options.burstSize
      timeToNextToken ==
        CeilDiv((1 - tokens) * options.refillDen * 1000, options.refillNum)
      refilled == [h EXCEPT ![cl.ref] =
                     [@ EXCEPT !.counter = tokens, !.start = cl.now]]
  IN  IF ~found THEN [heap |-> h, store |-> st, decision |-> Threw]
      ELSE IF cl.ref = 0
      THEN [heap |-> [h EXCEPT ![r] =
                        [counter |-> Minus(options.burstSize, 1),
                         timestamps |-> <<>>, start |-> cl.now]],
            store |-> set(st, cl.key, r, timeWindowSeconds, t),
            decision |-> Decision("allowed", Minus(options.burstSize, 1),
                           Plus(FloorDiv(cl.now, 1000), timeWindowSeconds))]
      ELSE IF LT(tokens, 1)
      THEN [heap |-> refilled, store |-> st,
            decision |-> Decision("rejected", 0,
                           FloorDiv(cl.now + timeToNextToken, 1000))]
      ELSE [heap |-> [refilled EXCEPT ![cl.ref] =
                        [@ EXCEPT !.counter = tokens - 1]],
            store |-> set(st, cl.key, cl.ref, timeWindowSeconds, t),
            decision |-> Decision("allowed", tokens - 1,
                           Plus(FloorDiv(cl.now, 1000), timeWindowSeconds))]

\* consume of the limiter's class
Consume(limiter, h, st, cl, calling, t) ==
  CASE limiter.algorithm = "sliding-window" ->
         SlidingWindowConsume(limiter, h, st, cl, calling, t)
    [] limiter.algorithm = "fixed-window" ->
         FixedWindowConsume(limiter, h, st, cl, calling, t)
    [] OTHER -> TokenBucketConsume(limiter, h, st, cl, calling, t)

NoDecision == Decision("none", 0, 0)

\* how many timestamps of allowed requests the log keeps
LogCap(limiter) ==
  (IF IsNum(limiter.options.maxRequests) THEN limiter.options.maxRequests
   ELSE DefaultMaxRequests) + 1

LastN(seq, n) ==
  IF Len(seq) <= n THEN seq ELSE SubSeq(seq, Len(seq) - n + 1, Len(seq))

NoHeaders == [limit |-> Undefined, remaining |-> Undefined,
              reset |-> Undefined, retryAfter |-> Undefined]

\* setRateLimitHeaders(ammo, result) at time t with the standard header
\* format: the RateLimit-* headers and, for a rejection, Retry-After
setRateLimitHeaders(limiter, result, t) ==
  [limit |-> limiter.options.maxRequests,
   remaining |-> result.remainingRequests,
   reset |-> result.resetTime,
   retryAfter |-> IF result.kind = "allowed" THEN Undefined
                  ELSE Minus(result.resetTime, FloorDiv(t, 1000))]

\* one run of the middleware: what it did to the request
Run(at, headers, nextCalled, onRateLimitedCalled, r, exc) ==
  [ran |-> TRUE, at |-> at, headers |-> headers, nextCalled |-> nextCalled,
   onRateLimitedCalled |-> onRateLimitedCalled, res |-> r, exc |-> exc]

NoRun == [Run(0, NoHeaders, FALSE, FALSE, FreshRes, NoExc) EXCEPT !.ran = FALSE]

\* the middleware with the `return` of the rejection lost: next() runs too
rateLimitMiddleware_NextAlways(limiter, onRateLimited, result, t) ==
  IF result.kind = "threw"
  THEN Run(t, NoHeaders, FALSE, FALSE, FreshRes, Error("TypeError"))
  ELSE LET headers == setRateLimitHeaders(limiter, result, t) IN
    IF result.kind = "rejected"
    THEN IF onRateLimited
         THEN Run(t, headers, TRUE, TRUE, FreshRes, NoExc)
         ELSE LET sent == throw(FreshRes, <<Num(429), Str("Too Many Requests")>>)
              IN Run(t, headers, TRUE, FALSE, sent.res, sent.exc)
    ELSE Run(t, headers, TRUE, FALSE, FreshRes, NoExc)

\* the middleware returned by rateLimiter(options), from the return of
\* `await limiter.consume(key)` on, at time t: result is what consume gave
rateLimitMiddleware(limiter, onRateLimited, result, t) ==
  IF result.kind = "threw"
  THEN Run(t, NoHeaders, FALSE, FALSE, FreshRes, Error("TypeError"))
  ELSE LET headers == setRateLimitHeaders(limiter, result, t) IN
    IF result.kind = "rejected"
    THEN IF onRateLimited
         THEN Run(t, headers, FALSE, TRUE, FreshRes, NoExc)
         ELSE LET sent == throw(FreshRes, <<Num(429), Str("Too Many Requests")>>)
              IN Run(t, headers, FALSE, FALSE, sent.res, sent.exc)
    ELSE Run(t, headers, TRUE, FALSE, FreshRes, NoExc)

\* rateLimiter(options) is called: the limiter is created
RLCreate(options) ==
  /\ rl.algorithm = "none"
  /\ rl' = rateLimiter(options)
  /\ mw' = [mw EXCEPT !.onRateLimited = Spread(options, "onRateLimited", FALSE)]
  /\ UNCHANGED <<store, heap, now, calls, rlog>>
  /\ UNCHANGED <<dvars, cvars, mvars>>

\* the middleware up to the first await of limiter.consume(key): keyGenerator,
\* then consume's Date.now() and storage.get
ConsumeBegin(key, limit) ==
  /\ rl.algorithm # "none"
  /\ Len(calls) < MaxInflight
  /\ rlog.started < limit
  /\ LET g == get(store, key, now)
         cl == [key |-> key, now |-> now, ref |-> g.ref]
     IN  /\ store' = g.store
         /\ calls' = Append(calls, cl)
         /\ heap' = Collect(heap, g.store, Append(calls, cl))
  /\ rlog' = [rlog EXCEPT
       !.started = @ + 1,
       !.overlapped = @ \/ Len(calls) > 0]
  /\ UNCHANGED <<rl, now, mw>>
  /\ UNCHANGED <<dvars, cvars, mvars>>

\* the rest of the middleware: consume from its await to its return, then
\* the headers and the branch on result.success
ConsumeEnd(c) ==
  /\ c \in DOMAIN calls
  /\ LET out == Consume(rl, heap, store, calls[c], calls, now)
         left == SubSeq(calls, 1, c - 1) \o SubSeq(calls, c + 1, Len(calls))
     IN  /\ store' = out.store
         /\ calls' = left
         /\ heap' = Collect(out.heap, out.store, left)
         /\ rlog' = [rlog EXCEPT
              !.last = out.decision,
              !.lastAt = calls[c].now,
              !.allowed = IF out.decision.kind = "allowed"
                          THEN LastN(Append(@, calls[c].now), LogCap(rl))
                          ELSE @]
         /\ mw' = [mw EXCEPT !.last =
              rateLimitMiddleware(rl, mw.onRateLimited, out.decision, now)]
  /\ UNCHANGED <<rl, now>>
  /\ UNCHANGED <<dvars, cvars, mvars>>

\* the clock advances by d milliseconds; time 0 is the limiter's creation
Tick(d) ==
  /\ rl.algorithm # "none"
  /\ now + d <= MaxNow
  /\ now' = now + d
  /\ UNCHANGED <<rl, store, heap, calls, rlog, mw>>
  /\ UNCHANGED <<dvars, cvars, mvars>>

RInit ==
  /\ rl = NoLimiter
  /\ store = [k \in Keys |-> NoItem]
  /\ heap = [r \in 1..MaxRefs |-> NoObj]
  /\ now = 0
  /\ calls = <<>>
  /\ rlog = [started |-> 0, overlapped |-> FALSE, allowed |-> <<>>,
             last |-> NoDecision, lastAt |-> 0]
  /\ mw = [onRateLimited |-> FALSE, last |-> NoRun]

(***************************************************************************)
(* The cache: the CacheStore singleton over one LRUCache per namespace.    *)
(* A public operation of the store runs under the store's lock from start  *)
(* to end, so it is one step; an operation that waits for a lock that is   *)
(* never released stays in the store, holding the store's lock.            *)
(***************************************************************************)
\* JavaScript's Infinity
Infinity == 1000000

\* the values handed to set: the string of n times "x" and the number n
StringOf(n) == [type |-> "string", n |-> n]
NumberOf(n) == [type |-> "number", n |-> n]
None == [type |-> "null", n |-> 0]

\* number of decimal digits of the numbers of the model
Digits(n) == IF n < 10 THEN 1 ELSE IF n < 100 THEN 2 ELSE 3

\* serialize(data): JSON.stringify({__type, value}); JSON has no Infinity and
\* writes null for it.  len is the length of the text.
serialize(data) ==
  [type |-> data.type,
   json |-> IF data.type = "number" /\ data.n = Infinity THEN "null"
            ELSE "value",
   n |-> data.n,
   len |-> CASE data.type = "string" -> 30 + data.n
             [] data.type = "number" /\ data.n = Infinity -> 32
             [] data.type = "number" -> 28 + Digits(data.n)
             [] OTHER -> 30]

\* deserialize(serialized): String(value), Number(value) - Number(null) is 0
deserialize(parsed) ==
  CASE parsed.type = "string" -> StringOf(parsed.n)
    [] parsed.type = "number" ->
         NumberOf(IF parsed.json = "null" THEN 0 ELSE parsed.n)
    [] OTHER -> None

\* encrypt(data): AES-256-CBC of the serialized text, written in hex; the
\* text is padded to the next multiple of 16 bytes, two hex digits a byte
encrypt(data) ==
  [plain |-> serialize(data), len |-> 32 * (serialize(data).len \div 16 + 1)]

decrypt(data) == deserialize(data.plain)

\* the `null` of a get that finds nothing
NoValue == encrypt(None)

\* Buffer.byteLength(key, 'utf8') of the keys of the model: "k1", "k2", "k3"
byteLength(key) == 2

\* CacheEntity.estimateSize for a string value: key, value, 8 for the
\* expiry, 8 for the timestamp, 50 overhead
estimateSize(key, value) == byteLength(key) + value.len + 8 + 8 + 50

CacheEntity(key, value, expiry) ==
  [key |-> key, value |-> value, expiry |-> expiry,
   size |-> estimateSize(key, value)]

\* getMaxCacheSizeInBytes(maxSize): only a string such as "1000B" parses
getMaxCacheSizeInBytes(maxSize) ==
  [ok |-> maxSize.kind = "str", bytes |-> maxSize.n]

\* the number JavaScript compares with when maxSize stands right of `>`:
\* a size string such as "1000B" is not the text of a number
ToNumber(maxSize) == IF maxSize.kind = "num" THEN maxSize.n ELSE NaN

GT(a, b) == IsNum(a) /\ IsNum(b) /\ a > b

\* new LRUCache(maxSize, onDeleteCallback); list is the linked list from head
\* to tail, evicted the keys of the entries removed to make room, called the
\* keys the callback was called with
LRUCache(bytes) ==
  [exists |-> TRUE, maxSize |-> bytes, currentSize |-> 0, list |-> <<>>,
   lock |-> FALSE, evicted |-> <<>>, called |-> <<>>]

NoCache ==
  [exists |-> FALSE, maxSize |-> 0, currentSize |-> 0, list |-> <<>>,
   lock |-> FALSE, evicted |-> <<>>, called |-> <<>>]

IndexOf(list, key) ==
  IF \E k \in DOMAIN list : list[k].key = key
  THEN CHOOSE k \in DOMAIN list : list[k].key = key
  ELSE 0

\* #removeEntity: unlink, currentSize never below 0
removeEntity(l, k) ==
  [l EXCEPT !.list = SubSeq(@, 1, k - 1) \o SubSeq(@, k + 1, Len(@)),
            !.currentSize = IF @ - l.list[k].size > 0
                            THEN @ - l.list[k].size ELSE 0]

\* #addEntity: link at the head
addEntity(l, entity) ==
  [l EXCEPT !.list = <<entity>> \o @, !.currentSize = @ + entity.size]

\* #evict without the call of the callback
evict_NoCallback(l) ==
  IF l.list = <<>> THEN l
  ELSE [removeEntity(l, Len(l.list)) EXCEPT
          !.evicted = Append(@, l.list[Len(l.list)].key)]

\* #evict: the tail is removed and the callback called with its key
evict(l) ==
  IF l.list = <<>> THEN l
  ELSE [removeEntity(l, Len(l.list)) EXCEPT
          !.evicted = Append(@, l.list[Len(l.list)].key),
          !.called = Append(@, l.list[Len(l.list)].key)]

\* #enforceSizeLimit: #evict the tail while the namespace is over its size,
\* at most MAX_ITERATIONS times
MAX_ITERATIONS == 1000

RECURSIVE enforceSizeLimitFrom(_, _)
enforceSizeLimitFrom(l, iterations) ==
  IF l.currentSize > l.maxSize /\ l.list # <<>> /\ iterations < MAX_ITERATIONS
  THEN LET after == evict(l)
       IN  IF after.currentSize >= l.currentSize THEN after
           ELSE enforceSizeLimitFrom(after, iterations + 1)
  ELSE l

enforceSizeLimit(l) == enforceSizeLimitFrom(l, 0)

\* LRUCache.delete(key) called while this LRUCache's lock is free
lruDelete(l, key) ==
  IF IndexOf(l.list, key) = 0 THEN l ELSE removeEntity(l, IndexOf(l.list, key))

\* LRUCache.get(key) at time t.  For an expired entry it calls
\* this.delete(key) while holding the lock that delete waits for: hung.
lruGet(l, key, t) ==
  LET k == IndexOf(l.list, key) IN
  IF k = 0
  THEN [lru |-> l, hung |-> FALSE, found |-> FALSE, value |-> NoValue]
  ELSE IF t > l.list[k].expiry
  THEN [lru |-> [l EXCEPT !.lock = TRUE], hung |-> TRUE, found |-> FALSE,
        value |-> NoValue]
  ELSE [lru |-> addEntity(removeEntity(l, k), l.list[k]), hung |-> FALSE,
        found |-> TRUE, value |-> l.list[k].value]

\* LRUCache.set(key, value, expiry).  For a key it already has it calls
\* this.delete(key) while holding the lock that delete waits for: hung.
lruSet(l, key, value, expiry) ==
  IF IndexOf(l.list, key) # 0
  THEN [lru |-> [l EXCEPT !.lock = TRUE], hung |-> TRUE]
  ELSE [lru |-> enforceSizeLimit(addEntity(l, CacheEntity(key, value, expiry))),
        hung |-> FALSE]

Namespaces == {"A", "B"}

\* tailsAtExit: a namespace had a tail when the last set left its eviction
NoStore ==
  [created |-> FALSE, maxSize |-> [kind |-> "num", n |-> 0], globalSize |-> 0,
   lock |-> FALSE, caches |-> [ns \in Namespaces |-> NoCache], order |-> <<>>,
   tailsAtExit |-> FALSE]

\* #getOrCreateCache(prefix): new LRUCache(this.maxSize) raises for a
\* maxSize that is not a size string; order is the Map's insertion order
getOrCreateCache(c, prefix) ==
  IF c.caches[prefix].exists THEN [ok |-> TRUE, store |-> c]
  ELSE IF getMaxCacheSizeInBytes(c.maxSize).ok
  THEN [ok |-> TRUE,
        store |-> [c EXCEPT
          !.caches[prefix] = LRUCache(getMaxCacheSizeInBytes(c.maxSize).bytes),
          !.order = Append(@, prefix)]]
  ELSE [ok |-> FALSE, store |-> c]

\* #enforceGlobalSizeLimit(requiredSpace) at time t: the tail of the first
\* namespace that has one is read with get and deleted, until there is room
RECURSIVE enforceGlobalSizeLimit(_, _, _)
enforceGlobalSizeLimit(c, requiredSpace, t) ==
  LET withTail == SelectSeq(c.order, LAMBDA ns : c.caches[ns].list # <<>>) IN
  IF ~GT(c.globalSize + requiredSpace, ToNumber(c.maxSize)) \/ withTail = <<>>
  THEN [store |-> c, hung |-> FALSE]
  ELSE LET ns == withTail[1]
           l == c.caches[ns]
           lruKey == l.list[Len(l.list)].key
           g == lruGet(l, lruKey, t)
       IN  IF g.hung
           THEN [store |-> [c EXCEPT !.caches[ns] = g.lru], hung |-> TRUE]
           ELSE enforceGlobalSizeLimit(
                  [c EXCEPT !.globalSize = @ - estimateSize(lruKey, g.value),
                            !.caches[ns] =
                               [lruDelete(g.lru, lruKey) EXCEPT
                                  !.evicted = Append(@, lruKey)]],
                  requiredSpace, t)

Present(c, ns, key) ==
  c.caches[ns].exists /\ IndexOf(c.caches[ns].list, key) # 0

Expired(c, ns, key, t) ==
  /\ Present(c, ns, key)
  /\ t > c.caches[ns].list[IndexOf(c.caches[ns].list, key)].expiry

\* one operation on the store, as clog keeps it: present and expired tell
\* what the operation found for its key
Op(op, ns, key, value, ttl, status, result) ==
  [op |-> op, ns |-> ns, key |-> key, value |-> value, ttl |-> ttl,
   status |-> status, result |-> result,
   present |-> ns \in Namespaces /\ Present(cache, ns, key),
   expired |-> ns \in Namespaces /\ Expired(cache, ns, key, now),
   at |-> now]

CacheReady == cache.created /\ ~cache.lock /\ Len(clog) < MaxCacheOps

\* new CacheStore(maxSize)
CacheCreate(maxSize) ==
  /\ ~cache.created
  /\ cache' = [NoStore EXCEPT !.created = TRUE, !.maxSize = maxSize]
  /\ UNCHANGED <<clog, ops, dvars, rvars, mvars>>

\* CacheStore.set(prefix, key, value, ttl)
StoreSet(prefix, key, value, ttl) ==
  /\ LET encryptedValue == encrypt(value)
         g == getOrCreateCache(cache, prefix)
         expiry == IF ttl = Infinity THEN Infinity ELSE now + ttl
         entrySize == estimateSize(key, encryptedValue)
         e == IF GT(g.store.globalSize + entrySize, ToNumber(cache.maxSize))
              THEN enforceGlobalSizeLimit(g.store, entrySize, now)
              ELSE [store |-> g.store, hung |-> FALSE]
         s == lruSet(e.store.caches[prefix], key, encryptedValue, expiry)
         Log(status) == Append(clog, Op("set", prefix, key, value, ttl,
                                        status, None))
     IN  IF ~g.ok
         THEN cache' = cache /\ clog' = Log("threw")
         ELSE IF e.hung
         THEN cache' = [e.store EXCEPT !.lock = TRUE] /\ clog' = Log("hung")
         ELSE IF s.hung
         THEN /\ cache' = [e.store EXCEPT !.caches[prefix] = s.lru,
                                          !.lock = TRUE]
              /\ clog' = Log("hung")
         ELSE /\ cache' = [e.store EXCEPT
                   !.caches[prefix] = s.lru,
                   !.globalSize = @ + entrySize,
                   !.tailsAtExit =
                      \E ns \in Namespaces : e.store.caches[ns].list # <<>>]
              /\ clog' = Log("returned")

\* CacheStore.set called while no other operation is in flight
CacheSet(prefix, key, value, ttl) ==
  /\ CacheReady
  /\ StoreSet(prefix, key, value, ttl)
  /\ UNCHANGED <<ops, dvars, rvars, mvars>>

\* CacheStore.get(prefix, key)
StoreGet(prefix, key) ==
  /\ LET g == getOrCreateCache(cache, prefix)
         r == lruGet(g.store.caches[prefix], key, now)
         Log(status, result) ==
           Append(clog, Op("get", prefix, key, None, 0, status, result))
     IN  IF ~g.ok
         THEN cache' = cache /\ clog' = Log("threw", None)
         ELSE IF r.hung
         THEN /\ cache' = [g.store EXCEPT !.caches[prefix] = r.lru,
                                          !.lock = TRUE]
              /\ clog' = Log("hung", None)
         ELSE /\ cache' = [g.store EXCEPT !.caches[prefix] = r.lru]
              /\ clog' = Log("returned",
                             IF r.found THEN decrypt(r.value) ELSE None)

\* CacheStore.get called while no other operation is in flight
CacheGet(prefix, key) ==
  /\ CacheReady
  /\ StoreGet(prefix, key)
  /\ UNCHANGED <<ops, dvars, rvars, mvars>>

\* CacheStore.delete(prefix, key)
StoreDelete(prefix, key) ==
  /\ LET g == getOrCreateCache(cache, prefix)
         r == lruGet(g.store.caches[prefix], key, now)
         Log(status) ==
           Append(clog, Op("delete", prefix, key, None, 0, status, None))
     IN  IF ~g.ok
         THEN cache' = cache /\ clog' = Log("threw")
         ELSE IF r.hung
         THEN /\ cache' = [g.store EXCEPT !.caches[prefix] = r.lru,
                                          !.lock = TRUE]
              /\ clog' = Log("hung")
         ELSE /\ cache' = [g.store EXCEPT
                   !.caches[prefix] = lruDelete(r.lru, key),
                   !.globalSize = IF r.found
                                  THEN @ - estimateSize(key, r.value) ELSE @]
              /\ clog' = Log("returned")

\* CacheStore.delete called while no other operation is in flight
CacheDelete(prefix, key) ==
  /\ CacheReady
  /\ StoreDelete(prefix, key)
  /\ UNCHANGED <<ops, dvars, rvars, mvars>>

\* CacheStore.clear(prefix); prefix "null" clears every namespace
StoreClear(prefix) ==
  /\ LET Log(status) ==
           Append(clog, Op("clear", prefix, "", None, 0, status, None))
     IN  IF prefix = "null"
         THEN /\ cache' = [cache EXCEPT
                   !.globalSize = 0,
                   !.caches = [ns \in Namespaces |-> NoCache],
                   !.order = <<>>]
              /\ clog' = Log("returned")
         ELSE LET g == getOrCreateCache(cache, prefix) IN
              IF ~g.ok
              THEN cache' = cache /\ clog' = Log("threw")
              ELSE /\ cache' = [g.store EXCEPT
                        !.globalSize = @ - g.store.caches[prefix].currentSize,
                        !.caches[prefix] =
                           [@ EXCEPT !.list = <<>>, !.currentSize = 0]]
                   /\ clog' = Log("returned")

\* CacheStore.clear called while no other operation is in flight
CacheClear(prefix) ==
  /\ CacheReady
  /\ StoreClear(prefix)
  /\ UNCHANGED <<ops, dvars, rvars, mvars>>

(***************************************************************************)
(* Operations of the store that overlap.  Every public operation runs in   *)
(* #withLock: #acquireLock, the operation's body with its awaits, and the  *)
(* release of the lock in the finally block.                               *)
(***************************************************************************)
\* #acquireLock without its while loop
acquireLock_NoWait(held) == [lock |-> TRUE, pc |-> "acquired"]

\* #acquireLock from its entry, or from the return of its timer, to its next
\* await: the loop's test and the assignment of the lock happen together
acquireLock(held) ==
  IF held THEN [lock |-> TRUE, pc |-> "poll"]
  ELSE [lock |-> TRUE, pc |-> "acquired"]

\* a public operation is called: #withLock enters #acquireLock
OpCall(op, prefix, key) ==
  /\ cache.created
  /\ Len(ops) < MaxLockOps
  /\ LET a == acquireLock(cache.lock) IN
       /\ cache' = [cache EXCEPT !.lock = a.lock]
       /\ ops' = Append(ops, [op |-> op, ns |-> prefix, key |-> key,
                              pc |-> a.pc, waited |-> a.pc = "poll",
                              seen |-> NoStore, interfered |-> FALSE])
  /\ UNCHANGED <<clog, dvars, rvars, mvars>>

\* the 1 ms timer of #acquireLock fires and the lock is found free
OpPoll(k) ==
  /\ k \in DOMAIN ops
  /\ ops[k].pc = "poll"
  /\ LET a == acquireLock(cache.lock) IN
       /\ a.pc = "acquired"
       /\ cache' = [cache EXCEPT !.lock = a.lock]
       /\ ops' = [ops EXCEPT ![k].pc = a.pc]
  /\ UNCHANGED <<clog, dvars, rvars, mvars>>

\* `await operation()`: the body starts and reaches its first await
OpBegin(k) ==
  /\ k \in DOMAIN ops
  /\ ops[k].pc = "acquired"
  /\ ops' = [ops EXCEPT ![k].pc = "inside", ![k].seen = cache]
  /\ UNCHANGED <<cache, clog, dvars, rvars, mvars>>

\* the body goes on after its awaits and comes to its end, or hangs
OpEnd(k) ==
  /\ k \in DOMAIN ops
  /\ ops[k].pc = "inside"
  /\ CASE ops[k].op = "set" ->
            StoreSet(ops[k].ns, ops[k].key, StringOf(400), Infinity)
       [] ops[k].op = "get" -> StoreGet(ops[k].ns, ops[k].key)
       [] ops[k].op = "delete" -> StoreDelete(ops[k].ns, ops[k].key)
       [] OTHER -> StoreClear(ops[k].ns)
  /\ ops' = [ops EXCEPT
       ![k].pc = IF clog'[Len(clog')].status = "hung" THEN "hung"
                 ELSE "finally",
       ![k].interfered = (ops[k].seen # cache)]
  /\ UNCHANGED <<dvars, rvars, mvars>>

\* the finally block of #withLock: releaseLock()
OpRelease(k) ==
  /\ k \in DOMAIN ops
  /\ ops[k].pc = "finally"
  /\ cache' = [cache EXCEPT !.lock = FALSE]
  /\ ops' = [ops EXCEPT ![k].pc = "done"]
  /\ UNCHANGED <<clog, dvars, rvars, mvars>>

\* the clock advances by d milliseconds while the cache is in use
Elapse(d) ==
  /\ cache.created
  /\ now + d <= MaxCacheNow
  /\ now' = now + d
  /\ UNCHANGED <<rl, store, heap, calls, rlog, mw>>
  /\ UNCHANGED <<dvars, cvars, mvars>>

CInit ==
  /\ cache = NoStore
  /\ clog = <<>>
  /\ ops = <<>>

(***************************************************************************)
(* The DatabaseManager.  A client is a number, in the order of creation;   *)
(* 0 stands for no client.  createConnection of the redis and mongodb      *)
(* managers keeps its clients by the hash of the configuration.            *)
(***************************************************************************)
Types == {"redis", "mongodb"}
Configs == {"cfg1", "cfg2"}

\* initializeConnection(dbType, config) up to the await of the client's
\* connect(): the record check, the initializing flag, createConnection
\* with its own check by configuration, and the new client
initializeConnection(d, dbType, config) ==
  IF d.connections[dbType] # 0
  THEN [d EXCEPT
         !.started = @ + 1,
         !.returned = Append(@, [type |-> dbType,
                                 client |-> d.connections[dbType]])]
  ELSE LET known == d.clients[dbType][config]
           client == IF known # 0 THEN known ELSE d.made + 1
       IN  [d EXCEPT
             !.started = @ + 1,
             !.initializing[dbType] = TRUE,
             !.made = IF known # 0 THEN @ ELSE @ + 1,
             !.inflight = Append(@, [type |-> dbType, config |-> config,
                                     client |-> client])]

\* connect() succeeded: createConnection keeps the client, then
\* initializeConnection sets the record, clears the flag and returns
Connected(d, c) ==
  LET call == d.inflight[c] IN
  [d EXCEPT
    !.clients[call.type][call.config] = call.client,
    !.connections[call.type] = call.client,
    !.initializing[call.type] = FALSE,
    !.inflight = SubSeq(@, 1, c - 1) \o SubSeq(@, c + 1, Len(@)),
    !.returned = Append(@, [type |-> call.type, client |-> call.client])]

\* connect() failed: the flag is cleared, the error logged and thrown on
ConnectFailed(d, c) ==
  [d EXCEPT
    !.initializing[d.inflight[c].type] = FALSE,
    !.inflight = SubSeq(@, 1, c - 1) \o SubSeq(@, c + 1, Len(@)),
    !.failed = TRUE]

\* hasConnection(dbType): an object with the two flags
hasConnection(d, dbType) ==
  [exists |-> d.connections[dbType] # 0, initializing |-> d.initializing[dbType]]

\* getConnection(dbType): the client of the record, or the TejError thrown
getConnection(d, dbType) ==
  IF d.connections[dbType] = 0
  THEN [exc |-> TejError(404, "No connection found"), client |-> 0]
  ELSE [exc |-> NoExc, client |-> d.connections[dbType]]

\* JavaScript's !value for an object: an object is truthy whatever it holds
Negate(object) == FALSE

\* the storage chosen at the end of RateLimiter's constructor for options.store
RateLimiterStorage(d, storeType) ==
  IF storeType = "redis"
  THEN IF Negate(hasConnection(d, "redis"))
       THEN [store |-> storeType, client |-> 0,
             exc |-> TejError(500, "Redis store selected but no Redis connection available")]
       ELSE [store |-> storeType, client |-> getConnection(d, "redis").client,
             exc |-> getConnection(d, "redis").exc]
  ELSE [store |-> "memory", client |-> 0, exc |-> NoExc]

\* a call of dbManager.initializeConnection whose promise the caller awaits
InitBegin(dbType, config) ==
  /\ db.started < MaxInitCalls
  /\ db' = initializeConnection(db, dbType, config)
  /\ UNCHANGED <<boot, dvars, rvars, cvars>>

InitEnd(c) ==
  /\ c \in DOMAIN db.inflight
  /\ db' = Connected(db, c)
  /\ UNCHANGED <<boot, dvars, rvars, cvars>>

InitFail(c) ==
  /\ c \in DOMAIN db.inflight
  /\ db.clients[db.inflight[c].type][db.inflight[c].config] = 0
  /\ db' = ConnectFailed(db, c)
  /\ UNCHANGED <<boot, dvars, rvars, cvars>>

\* no limiter has been constructed
NoStorage == [store |-> "none", client |-> 0, exc |-> NoExc, afterWithRedis |-> FALSE]

MInit ==
  /\ db = [connections |-> [t \in Types |-> 0],
           initializing |-> [t \in Types |-> FALSE],
           clients |-> [t \in Types |-> [g \in Configs |-> 0]],
           made |-> 0, started |-> 0, failed |-> FALSE,
           inflight |-> <<>>, returned |-> <<>>]
  /\ boot = [readdir |-> "none", importing |-> {}, imported |-> {},
             listen |-> "none", withRedis |-> "none", redisCalled |-> FALSE,
             limiter |-> NoStorage]

(***************************************************************************)
(* The start of the application.  new Tejas() starts the search for the    *)
(* target files and returns; the files are imported when the directory has *)
(* been read, and a file registers its endpoints when its import is        *)
(* evaluated.  takeoff() asks the listener to start.  Nothing orders the   *)
(* imports and the listener.                                               *)
(***************************************************************************)
\* the target files of DIR_TARGETS and the endpoints each one registers
TargetFiles == {"a.target.js", "b.target.js", "c.target.js"}

FileEndpoints(f) ==
  CASE f = "a.target.js" -> <<Endpoint(TargetBase, <<"/">>, <<>>, "h")>>
    [] f = "b.target.js" -> <<Endpoint(TargetBase, PUsersId, <<"r1">>, "h")>>
    [] OTHER -> <<Endpoint(TargetBase, <<"/", "u">>, <<"r1">>, "h2args")>>

\* new Tejas(): the constructor calls registerTargetsDir, which calls
\* findTargetFiles and returns while fs.readdir is pending
TejasNew ==
  /\ boot.readdir = "none"
  /\ boot' = [boot EXCEPT !.readdir = "pending"]
  /\ UNCHANGED <<dvars, rvars, cvars, db>>

\* the directory has been read: import() is started for every target file
ReaddirDone ==
  /\ boot.readdir = "pending"
  /\ boot' = [boot EXCEPT !.readdir = "done", !.importing = TargetFiles]
  /\ UNCHANGED <<dvars, rvars, cvars, db>>

\* the import of a target file is evaluated: its target.register calls run
ImportDone(f) ==
  /\ f \in boot.importing
  /\ targets' = targets \o FileEndpoints(f)
  /\ boot' = [boot EXCEPT !.importing = @ \ {f}, !.imported = @ \cup {f}]
  /\ UNCHANGED <<phase, globalMiddlewares, targetMiddlewares, reqvars, pc,
                 chainvars, caught, res, hist>>
  /\ UNCHANGED <<unhandled, rvars, cvars, db>>

\* app.withRedis(config): initializeConnection is called and its promise
\* dropped
WithRedis(config) ==
  /\ boot.readdir # "none"
  /\ boot.listen = "none"
  /\ db.started < MaxInitCalls - 1
  /\ db' = initializeConnection(db, "redis", config)
  /\ boot' = [boot EXCEPT !.redisCalled = TRUE]
  /\ UNCHANGED <<dvars, rvars, cvars>>

\* app.withRateLimit({store: storeType}): rateLimiter constructs the limiter,
\* whose constructor picks the storage
WithRateLimit(storeType) ==
  /\ boot.readdir # "none"
  /\ boot.listen = "none"
  /\ boot.limiter = NoStorage
  /\ LET st == RateLimiterStorage(db, storeType) IN
       boot' = [boot EXCEPT !.limiter =
                  [store |-> st.store, client |-> st.client, exc |-> st.exc,
                   afterWithRedis |-> boot.redisCalled]]
  /\ UNCHANGED <<dvars, rvars, cvars, db>>

\* app.takeoff({withRedis}): createServer and engine.listen, which returns
\* at once; withRedis is "none" when the option is not given
TakeoffCall(withRedis) ==
  /\ boot.readdir # "none"
  /\ boot.listen = "none"
  /\ boot' = [boot EXCEPT !.listen = "pending", !.withRedis = withRedis]
  /\ UNCHANGED <<dvars, rvars, cvars, db>>

\* the listener is bound: requests are accepted from now on, and the
\* callback of listen starts the connection takeoff was given
Listening ==
  /\ boot.listen = "pending"
  /\ boot' = [boot EXCEPT !.listen = "listening"]
  /\ phase' = "serving"
  /\ db' = IF boot.withRedis # "none"
           THEN initializeConnection(db, "redis", boot.withRedis)
           ELSE db
  /\ UNCHANGED <<regvars, reqvars, pc, chainvars, caught, res, hist>>
  /\ UNCHANGED <<unhandled, rvars, cvars>>

\* connect() failed for a call made by withRedis or by the callback of
\* listen: initializeConnection throws the error on and nothing catches it
BootInitFail(c) ==
  /\ c \in DOMAIN db.inflight
  /\ db.clients[db.inflight[c].type][db.inflight[c].config] = 0
  /\ db' = ConnectFailed(db, c)
  /\ unhandled' = TRUE
  /\ UNCHANGED <<phase, regvars, reqvars, pc, chainvars, caught, res, hist>>
  /\ UNCHANGED <<boot, rvars, cvars>>

\* a step calls dbManager.getConnection(dbType)
StepGetConnection(n, dbType) ==
  /\ Running(n)
  /\ Budget
  /\ IF getConnection(db, dbType).exc = NoExc
     THEN /\ frames' = [frames EXCEPT ![n] = [@ EXCEPT !.ops = @ + 1]]
          /\ UNCHANGED hist
     ELSE /\ frames' = [frames EXCEPT ![n] =
               [@ EXCEPT !.st = "rejected",
                         !.exc = getConnection(db, dbType).exc]]
          /\ hist' = [hist EXCEPT !.signalled = @ \/ ~res.headersSent,
                                  !.noConnection = TRUE]
  /\ UNCHANGED <<phase, regvars, reqvars, pc, chain, i, caught, res>>
  /\ UNCHANGED <<unhandled, rvars, cvars, mvars>>

DInit ==
  /\ phase = "startup"
  /\ targets = <<>>
  /\ globalMiddlewares = <<>>
  /\ targetMiddlewares = <<>>
  /\ req = NoReq
  /\ pc = "idle"
  /\ match = NoMatch
  /\ payload = EmptyMap
  /\ chain = <<>>
  /\ i = 0
  /\ frames = <<>>
  /\ caught = NoExc
  /\ unhandled = FALSE
  /\ res = FreshRes
  /\ hist = FreshHist

Init == DInit /\ RInit /\ CInit /\ MInit

Startup(inputs) ==
  \/ \E r \in inputs : TargetRegister(r.path, r.middlewares, r.shoot)
  \/ \E m \in {<<"t1">>, <<"bad0">>} : TargetMidair(m)
  \/ \E m \in {<<"g1">>, <<"bad0">>} : addGlobalMiddleware(m)
  \/ takeoff

\* the startup of the chain model: one endpoint, with or without middlewares
ChainStartup ==
  \/ \E r \in ChainRegInputs :
        Len(targets) = 0 /\ TargetRegister(r.path, r.middlewares, r.shoot)
  \/ addGlobalMiddleware(<<"g1">>)
  \/ takeoff

Serve(inputs) ==
  \/ \E r \in inputs : Receive(r.url, r.query, r.ct, r.body, r.chunks)
  \/ Dispatch
  \/ Enhance
  \/ executeChain
  \/ HandlerCatch

\* every behaviour a middleware or handler can show, up to MaxOps calls
Steps(n) ==
  \/ StepFire(n)
  \/ \E v \in ThrowVals : StepThrow(n, v)
  \/ \E v \in RaiseVals : StepRaise(n, v)
  \/ StepReturn(n)
  \/ \E aw \in BOOLEAN : StepNext(n, aw)
  \/ NextResume(n)
  \/ NextCatch(n)

\* the well-behaved chain: a middleware awaits next() and returns, the
\* handler fires and returns
PlainSteps(n) ==
  \/ Running(n) /\ n < Len(chain) /\ frames[n].ops = 0 /\ StepNext(n, TRUE)
  \/ Running(n) /\ n = Len(chain) /\ frames[n].ops = 0 /\ StepFire(n)
  \/ Running(n) /\ frames[n].ops = 1 /\ StepReturn(n)
  \/ NextResume(n)
  \/ NextCatch(n)


\* routing: every registration and request, well-behaved steps
Next ==
  \/ Startup(RegInputs)
  \/ Serve(ReqInputs)
  \/ \E n \in 1..MaxChain : PlainSteps(n)

Spec == Init /\ [][Next]_vars

\* chain execution: one route, every behaviour of the steps
NextChain ==
  \/ ChainStartup
  \/ Serve(ChainReqInputs)
  \/ \E n \in 1..MaxChain : Steps(n)
  \/ ProcessExit

SpecChain == Init /\ [][NextChain]_vars

\* the start of the application and the requests that follow
NextBoot ==
  \/ TejasNew
  \/ ReaddirDone
  \/ \E f \in TargetFiles : ImportDone(f)
  \/ \E g \in Configs : WithRedis(g)
  \/ \E st \in {"memory", "redis"} : WithRateLimit(st)
  \/ \E g \in {"none"} \cup Configs : TakeoffCall(g)
  \/ Listening
  \/ \E c \in 1..MaxInitCalls : InitEnd(c)
  \/ \E c \in 1..MaxInitCalls : BootInitFail(c)
  \/ Serve(ChainReqInputs)
  \/ \E n \in 1..MaxChain : PlainSteps(n)
  \/ \E n \in 1..MaxChain :
        Running(n) /\ n = Len(chain) /\ frames[n].ops = 0
          /\ StepGetConnection(n, "redis")
  \/ ProcessExit

SpecBoot == Init /\ [][NextBoot]_vars

\* the arguments given to ammo.throw
ThrowArgs ==
  { <<>> }
  \cup { <<v>> : v \in
          { Num(404), Num(429), Num(500), Num(42), Num(700),
            TejError(400, "Bad Request"), TejError(413, "404"),
            TejError(415, "Not Found"),
            Error("404"), Error("42"), Error("Not Found"), Error("not found"),
            Error("boom"),
            Str("Not Found"), Str("not found"), Str("Too Many Requests"),
            Str("boom"), Nullish } }
  \cup { <<Num(404), Str("custom")>>, <<Num(429), Str("Too Many Requests")>> }

NextThrow ==
  \/ AmmoNew
  \/ \E args \in ThrowArgs : AmmoThrow(args)

SpecThrow == Init /\ [][NextThrow]_vars

(***************************************************************************)
(* The rate limiter: the options given to the factory, and its execution.  *)
(***************************************************************************)
\* weights of the README's sliding-window example: current 1, previous 0.5
ReadmeWeights == [current |-> 2, previous |-> 1]

FactoryInputs ==
  { [maxRequests |-> 1, timeWindowSeconds |-> 2],
    [maxRequests |-> 2, timeWindowSeconds |-> 1,
     algorithmOptions |-> [granularity |-> 1, weights |-> ReadmeWeights]],
    [algorithm |-> "fixed-window", maxRequests |-> 2, timeWindowSeconds |-> 1,
     algorithmOptions |-> [strictWindow |-> TRUE]],
    [algorithm |-> "fixed-window", maxRequests |-> 2, timeWindowSeconds |-> 2],
    [algorithm |-> "fixed-window", maxRequests |-> 1, timeWindowSeconds |-> 1,
     onRateLimited |-> TRUE],
    [algorithm |-> "token-bucket", maxRequests |-> 2, timeWindowSeconds |-> 1,
     algorithmOptions |-> [burstSize |-> 3, refillRate |-> 1]],
    [algorithm |-> "token-bucket", maxRequests |-> 5, timeWindowSeconds |-> 60,
     algorithmOptions |-> [burstSize |-> 5, refillRate |-> 1]] }

\* options that leave maxRequests and timeWindowSeconds out
DefaultInputs ==
  { [store |-> "memory"],
    [algorithm |-> "fixed-window"],
    [algorithm |-> "token-bucket"] }

TickSteps == {500}

\* limiters with explicit limits, requests at any time
NextRL ==
  \/ \E o \in FactoryInputs : RLCreate(o)
  \/ \E key \in Keys : ConsumeBegin(key, MaxConsumes)
  \/ \E c \in 1..MaxInflight : ConsumeEnd(c)
  \/ \E d \in TickSteps : Tick(d)

SpecRL == Init /\ [][NextRL]_vars

\* limiters created without limits, a burst of more requests than the
\* default cap
NextRLDefault ==
  \/ \E o \in DefaultInputs : RLCreate(o)
  \/ \E key \in Keys : ConsumeBegin(key, DefaultMaxRequests + 1)
  \/ \E c \in 1..MaxInflight : ConsumeEnd(c)

SpecRLDefault == Init /\ [][NextRLDefault]_vars

\* the fixed window: the limiter of the four-request scenario (3 requests
\* per 60 s) and two short windows, one of them aligned to the clock
FixedInputs ==
  { [algorithm |-> "fixed-window", maxRequests |-> 3, timeWindowSeconds |-> 60,
     algorithmOptions |-> [strictWindow |-> FALSE]],
    [algorithm |-> "fixed-window", maxRequests |-> 2, timeWindowSeconds |-> 1,
     algorithmOptions |-> [strictWindow |-> TRUE]],
    [algorithm |-> "fixed-window", maxRequests |-> 2, timeWindowSeconds |-> 2] }

NextFixed ==
  \/ \E o \in FixedInputs : RLCreate(o)
  \/ \E key \in Keys : ConsumeBegin(key, MaxFixedConsumes)
  \/ \E c \in 1..MaxInflight : ConsumeEnd(c)
  \/ \E d \in TickSteps : Tick(d)

SpecFixed == Init /\ [][NextFixed]_vars

(***************************************************************************)
(* The cache: the configurations of the store and what is done with it.    *)
(***************************************************************************)
\* maxSize as the size string "1000B" and as the number 1000
CacheConfigs == { [kind |-> "str", n |-> 1000], [kind |-> "num", n |-> 1000] }

CacheKeys == { <<"A", "k1">>, <<"B", "k2">>, <<"A", "k3">> }

\* value and ttl of a set: 400 bytes for good, the number Infinity for good,
\* 400 bytes for half a second
SetInputs ==
  { <<StringOf(400), Infinity>>, <<NumberOf(Infinity), Infinity>>,
    <<StringOf(400), 500>> }

NextCache ==
  \/ \E m \in CacheConfigs : CacheCreate(m)
  \/ \E k \in CacheKeys, v \in SetInputs : CacheSet(k[1], k[2], v[1], v[2])
  \/ \E k \in CacheKeys : CacheGet(k[1], k[2])
  \/ \E k \in CacheKeys : CacheDelete(k[1], k[2])
  \/ \E prefix \in Namespaces \cup {"null"} : CacheClear(prefix)
  \/ Elapse(500)

SpecCache == Init /\ [][NextCache]_vars

\* the operations that overlap in the lock model
LockOps ==
  { [op |-> "set", ns |-> "A", key |-> "k1"],
    [op |-> "get", ns |-> "A", key |-> "k1"],
    [op |-> "delete", ns |-> "A", key |-> "k1"],
    [op |-> "set", ns |-> "B", key |-> "k2"],
    [op |-> "clear", ns |-> "A", key |-> ""] }

\* the store's lock: up to MaxLockOps operations called at any moments
NextLock ==
  \/ CacheCreate([kind |-> "str", n |-> 1000])
  \/ \E o \in LockOps : OpCall(o.op, o.ns, o.key)
  \/ \E k \in 1..MaxLockOps : OpPoll(k)
  \/ \E k \in 1..MaxLockOps : OpBegin(k)
  \/ \E k \in 1..MaxLockOps : OpEnd(k)
  \/ \E k \in 1..MaxLockOps : OpRelease(k)

SpecLock == Init /\ [][NextLock]_vars

\* connections: calls for both types, one after another or overlapping
NextDb ==
  \/ \E t \in Types, g \in Configs : InitBegin(t, g)
  \/ \E c \in 1..MaxInitCalls : InitEnd(c)
  \/ \E c \in 1..MaxInitCalls : InitFail(c)

SpecDb == Init /\ [][NextDb]_vars

(***************************************************************************)
(* Properties of the dispatcher.                                           *)
(***************************************************************************)
\* the request is over: handler returned and every invocation of next()
\* settled, or the process died of an unhandled rejection
Finished ==
  \/ pc = "crashed"
  \/ pc = "done" /\ \A n \in DOMAIN frames : frames[n].st = "done"

\* the request path normalised the way a registered path is
ReqNorm(url) == setPath(<<>>, url)

Dispatched == pc \notin {"idle", "aim"}

\* C1: for every request at most one response is written (headers once,
\* body once), whatever the steps fire, throw or raise, and the sent latch
\* is never unset once it is set.
C1_SendOnce ==
  [][ /\ res'.writeHeads <= 1
      /\ res'.bodyWrites <= 1
      /\ (res.headersSent => res'.headersSent) ]_vars

\* a second send was attempted after the response was written
C1_Witness ==
  /\ res.headersSent
  /\ res.writeHeads = 1
  /\ \E n \in DOMAIN frames : frames[n].exc = Error("ERR_HTTP_HEADERS_SENT")

\* C2: when a step signals failure before any response has been sent,
\* exactly one error response is written for the request (requests in which
\* a step sends a response of its own, the endpoint has no valid handler, or
\* a step calls next() past the end of the chain, are left aside).
C2_ErrorSentOnce ==
  (/\ Finished
   /\ hist.signalled
   /\ res.by # "step"
   /\ i <= Len(chain)
   /\ \A k \in DOMAIN chain : chain[k] # Null)
    => hist.errorWrites = 1

\* C3: the chain of a matched request is the global middlewares, then the
\* middlewares the endpoint's Target had collected with midair() when the
\* endpoint was registered, then the route middlewares, then the handler.
C3_ChainOrder ==
  hist.started # <<>> =>
    chain = Append(globalMiddlewares \o hist.midairAt[match.idx]
                     \o targets[match.idx].middlewares,
                   targets[match.idx].handler)

\* C4: when an endpoint is registered whose path is the normalised request
\* path, match returns an endpoint with exactly that path and empty params,
\* wherever parameterised endpoints matching the path were registered.
C4_ExactWins ==
  Dispatched /\ (\E k \in DOMAIN targets : targets[k].path = ReqNorm(req.url)) =>
    /\ match.found
    /\ targets[match.idx].path = ReqNorm(req.url)
    /\ match.params = EmptyMap

\* an exact endpoint was returned although a parameterised endpoint
\* registered before it matches the path too
C4_Witness ==
  /\ Dispatched
  /\ match.found
  /\ match.idx > 1
  /\ targets[match.idx].path = ReqNorm(req.url)
  /\ matchParameterizedRoute(targets[1].path, standardizePath(req.url)).ok
  /\ targets[1].path # targets[match.idx].path

\* the plain GET /users/42?q=1 of the scenario, matched to /users/:id
C5_Scenario ==
  /\ req = [url |-> <<"/", "u", "/", "4">>, query |-> Q1, ct |-> "none",
            body |-> EmptyMap, chunks |-> <<>>]
  /\ match.found
  /\ targets[match.idx].path = PUsersId
  /\ targets[match.idx].handler # Null

\* C5: with /users/:id registered, a plain GET /users/42?q=1 runs the
\* handler with a payload holding id = 42 and q = 1 and is answered 200
\* with the handler's output.
C5_ParamExtraction ==
  C5_Scenario /\ Finished =>
    /\ hist.handlerRan
    /\ K("i") \in DOMAIN hist.handlerPayload
    /\ hist.handlerPayload[K("i")] = K("4")
    /\ K("q") \in DOMAIN hist.handlerPayload
    /\ hist.handlerPayload[K("q")] = K("1")
    /\ res.status = 200
    /\ res.by = "step"

\* C6: the payload the chain sees is the union of query, body and route
\* parameters; on a key collision the route parameter wins over the body
\* and the body over the query.
C6_PayloadPrecedence ==
  hist.started # <<>> =>
    /\ DOMAIN payload =
         DOMAIN req.query \cup DOMAIN req.body \cup DOMAIN match.params
    /\ \A k \in DOMAIN payload :
         payload[k] = IF k \in DOMAIN match.params THEN match.params[k]
                      ELSE IF k \in DOMAIN req.body THEN req.body[k]
                      ELSE req.query[k]
    /\ (hist.handlerRan => hist.handlerPayload = payload)

\* the chain runs with a key present in query, body and route parameters
C6_Witness ==
  /\ hist.handlerRan
  /\ K("i") \in DOMAIN req.query
  /\ K("i") \in DOMAIN req.body
  /\ K("i") \in DOMAIN match.params
  /\ K("b") \in DOMAIN req.query
  /\ payload[K("b")] = K("2")
  /\ payload[K("i")] = K("4")

\* C7: match(e.path) returns e for every registered endpoint e, or an
\* endpoint registered later than e with the same path.
C7_MatchReturnsSelfOrLater ==
  Dispatched =>
    \A k \in DOMAIN targets :
      targets[k].path = req.url =>
        /\ match.found
        /\ \/ match.idx = k
           \/ match.idx > k /\ targets[match.idx].path = targets[k].path

(***************************************************************************)
(* Properties of the rate limiter.                                         *)
(***************************************************************************)
RECURSIVE SeqMax(_)
SeqMax(seq) ==
  IF Len(seq) = 1 THEN seq[1]
  ELSE LET m == SeqMax(Tail(seq)) IN IF seq[1] > m THEN seq[1] ELSE m

RECURSIVE SeqMin(_)
SeqMin(seq) ==
  IF Len(seq) = 1 THEN seq[1]
  ELSE LET m == SeqMin(Tail(seq)) IN IF seq[1] < m THEN seq[1] ELSE m

\* no maxRequests + 1 of the logged allowed requests arrived within less
\* than timeWindowSeconds
WithinCap(allowed, maxRequests, timeWindowSeconds) ==
  Len(allowed) > maxRequests =>
    SeqMax(allowed) - SeqMin(allowed) >= timeWindowSeconds * 1000

\* the limiter the factory creates when only the limits are given
DefaultSlidingWindow ==
  /\ rl.algorithm = "sliding-window"
  /\ rl.slidingWindowOptions =
       [granularity |-> 1, weights |-> [current |-> 2, previous |-> 0]]
  /\ IsNum(rl.options.maxRequests)
  /\ IsNum(rl.options.timeWindowSeconds)

\* C8: with the default algorithm and default algorithm options, the
\* requests allowed for a key within any interval of timeWindowSeconds never
\* number more than maxRequests (requests made one after another).
C8_WindowCap ==
  DefaultSlidingWindow /\ ~rlog.overlapped =>
    WithinCap(rlog.allowed, rl.options.maxRequests,
              rl.options.timeWindowSeconds)

\* C9: a limiter created by the factory without maxRequests and
\* timeWindowSeconds allows at most 60 requests per 60-second window per key
\* (requests made one after another).
C9_DefaultsEnforced ==
  rl.algorithm # "none" /\ ~rlog.overlapped =>
    WithinCap(rlog.allowed, DefaultMaxRequests, DefaultTimeWindowSeconds)

\* C10: every decision consume returns has 0 <= remaining <= maxRequests
\* (limiters whose maxRequests is a number, requests made one after another).
C10_RemainingInRange ==
  (/\ rlog.last.kind \in {"allowed", "rejected"}
   /\ IsNum(rl.options.maxRequests)
   /\ ~rlog.overlapped)
    => /\ rlog.last.remainingRequests >= 0
       /\ rlog.last.remainingRequests <= rl.options.maxRequests

\* C11: every decision of consume, allowed or rejected, carries a resetTime
\* that is not before the second in which consume was called, so that
\* Retry-After = resetTime - nowSec is never negative.
C11_ResetNotPast ==
  (/\ rlog.last.kind \in {"allowed", "rejected"}
   /\ ~rlog.overlapped)
    => GE(rlog.last.resetTime, rlog.lastAt \div 1000)

AllowedAt(t) == Len(SelectSeq(rlog.allowed, LAMBDA x : x = t))

\* C13: consume calls for one key that overlap behave as if run one at a
\* time: no update is lost, so the requests allowed for the key within one
\* window - here the requests made at one and the same instant - never
\* exceed maxRequests.
C13_NoLostUpdate ==
  rl.algorithm # "none" =>
    \A k \in DOMAIN rlog.allowed :
      AllowedAt(rlog.allowed[k]) <= rl.options.maxRequests

\* the requests so far, at most maxRequests + 1, were made one after the
\* other and all of them fall into the window opened by the first: the
\* clock-aligned window of the first request with strictWindow,
\* timeWindowSeconds from it without
InFirstWindow ==
  LET W == rl.options.timeWindowSeconds * 1000
      first == rlog.allowed[1]
  IN  /\ rl.algorithm = "fixed-window"
      /\ ~rlog.overlapped
      /\ calls = <<>>
      /\ rlog.started >= 1
      /\ rlog.started <= rl.options.maxRequests + 1
      /\ IF rl.fixedWindowOptions.strictWindow
         THEN rlog.lastAt \div W = first \div W
         ELSE rlog.lastAt - first < W

\* the second at which the first window ends
FirstWindowEnd ==
  LET W == rl.options.timeWindowSeconds * 1000
      first == rlog.allowed[1]
  IN  (IF rl.fixedWindowOptions.strictWindow THEN (first \div W) * W ELSE first)
        \div 1000 + rl.options.timeWindowSeconds

\* C14: fixed window: the k-th request of a window is allowed with
\* remaining = maxRequests - k as long as k <= maxRequests (2, 1, 0 for
\* maxRequests = 3), and the next request of that window is rejected with
\* remaining 0, status 429 and Retry-After = end of the window - current
\* second.
C14_FixedWindowCountdown ==
  InFirstWindow =>
    IF rlog.started <= rl.options.maxRequests
    THEN /\ rlog.last.kind = "allowed"
         /\ rlog.last.remainingRequests = rl.options.maxRequests - rlog.started
         /\ mw.last.nextCalled
    ELSE /\ rlog.last.kind = "rejected"
         /\ rlog.last.remainingRequests = 0
         /\ mw.last.res.status = 429
         /\ mw.last.headers.retryAfter
              = FirstWindowEnd - (mw.last.at \div 1000)

\* the scenario: 3 requests per 60 s, the fourth request within 10 s is
\* answered 429 with Retry-After between 50 and 60
C14_Witness ==
  /\ InFirstWindow
  /\ rl.options.maxRequests = 3
  /\ rl.options.timeWindowSeconds = 60
  /\ ~rl.fixedWindowOptions.strictWindow
  /\ rlog.started = 4
  /\ Len(rlog.allowed) = 3
  /\ rlog.last.kind = "rejected"
  /\ mw.last.res.status = 429
  /\ mw.last.headers.retryAfter >= 50
  /\ mw.last.headers.retryAfter <= 60

\* C15: token bucket with burstSize 5 and refillRate 1: the first contact
\* is allowed and stores tokens = burstSize - 1, and the k-th of the
\* requests made one after the other at t = 0 is allowed, leaving
\* burstSize - k tokens, for k up to 5.
C15_TokenBucketBurst ==
  (/\ rl.algorithm = "token-bucket"
   /\ rl.tokenBucketOptions.burstSize = 5
   /\ rl.tokenBucketOptions.refillNum = 1
   /\ rl.tokenBucketOptions.refillDen = 1
   /\ ~rlog.overlapped
   /\ calls = <<>>
   /\ rlog.started \in 1..5
   /\ now = 0)
    => /\ rlog.last.kind = "allowed"
       /\ rlog.last.remainingRequests = 5 - rlog.started
       /\ store["ip1"].ref # 0
       /\ heap[store["ip1"].ref].counter = 5 - rlog.started

(***************************************************************************)
(* Properties of the cache.                                                *)
(***************************************************************************)
LastOp == clog[Len(clog)]
PrevOp == clog[Len(clog) - 1]

RECURSIVE SumSizes(_, _)
SumSizes(list, k) == IF k = 0 THEN 0 ELSE list[k].size + SumSizes(list, k - 1)

\* the sizes of all entries held, over all namespaces
TotalSize ==
  SumSizes(cache.caches["A"].list, Len(cache.caches["A"].list))
    + SumSizes(cache.caches["B"].list, Len(cache.caches["B"].list))

\* C16: when a public operation of the store has returned, globalSize is
\* the sum of the sizes of the entries held in all namespaces, and it is at
\* most maxBytes.
C16_GlobalSizeExact ==
  (clog # <<>> /\ LastOp.status = "returned") =>
    /\ cache.globalSize = TotalSize
    /\ cache.globalSize <= cache.maxSize.n

\* C17: a get for an entry whose finite TTL has run out returns, its result
\* is none, and the entry is gone from its namespace.
C17_ExpiredGetReturnsNone ==
  (clog # <<>> /\ LastOp.op = "get" /\ LastOp.expired) =>
    /\ LastOp.status = "returned"
    /\ LastOp.result = None
    /\ ~Present(cache, LastOp.ns, LastOp.key)

\* C18: set(ns, k, v, Infinity) returns, for a key that was absent and for
\* a key that was present, and a get(ns, k) made right after it returns v.
C18_SetThenGet ==
  /\ (clog # <<>> /\ LastOp.op = "set" /\ LastOp.ttl = Infinity
        /\ LastOp.status # "threw")
       => LastOp.status = "returned"
  /\ (Len(clog) >= 2 /\ LastOp.op = "get" /\ PrevOp.op = "set"
        /\ PrevOp.ttl = Infinity /\ PrevOp.status = "returned"
        /\ LastOp.ns = PrevOp.ns /\ LastOp.key = PrevOp.key)
       => LastOp.status = "returned" /\ LastOp.result = PrevOp.value

\* the three sets of the scenario, 400 bytes each, have returned
C19_Scenario ==
  /\ cache.maxSize.n = 1000
  /\ Len(clog) = 3
  /\ \A k \in 1..3 :
        /\ clog[k].op = "set"
        /\ clog[k].status = "returned"
        /\ clog[k].value = StringOf(400)
        /\ clog[k].ttl = Infinity
  /\ <<clog[1].ns, clog[1].key>> = <<"A", "k1">>
  /\ <<clog[2].ns, clog[2].key>> = <<"B", "k2">>
  /\ <<clog[3].ns, clog[3].key>> = <<"A", "k3">>

\* C19: with maxBytes 1000, after set("A","k1"), set("B","k2") and
\* set("A","k3") of 400 bytes each, the entries held take at most 1000
\* bytes in total and k1 or k2 is no longer held.
C19_GlobalEviction ==
  C19_Scenario =>
    /\ TotalSize <= 1000
    /\ ~Present(cache, "A", "k1") \/ ~Present(cache, "B", "k2")

(***************************************************************************)
(* Properties of the DatabaseManager.                                      *)
(***************************************************************************)
\* the clients the calls for dbType have returned or are waiting for
ClientsOf(dbType) ==
  {db.returned[k].client :
     k \in {j \in DOMAIN db.returned : db.returned[j].type = dbType}}
  \cup {db.inflight[k].client :
          k \in {j \in DOMAIN db.inflight : db.inflight[j].type = dbType}}

\* C20: as long as no connect() has failed, the calls of
\* initializeConnection for one type - one after another or overlapping -
\* create at most one client, and every call returns that client.
C20_OneClientPerType ==
  ~db.failed => \A t \in Types : Cardinality(ClientsOf(t)) <= 1

(***************************************************************************)
(* Properties of the body parser.                                          *)
(***************************************************************************)
RECURSIVE SumSeq(_)
SumSeq(q) == IF q = <<>> THEN 0 ELSE Head(q) + SumSeq(Tail(q))

\* the request matched an endpoint and carries a body type the parser reads
BodyRead ==
  /\ Dispatched
  /\ match.found
  /\ \/ toLowerCase(req.ct) \in {"application/json",
                                  "application/x-www-form-urlencoded"}
     \/ IsMultipart(toLowerCase(req.ct))

\* C21: the payload is never built from more than BODY_MAX_SIZE bytes of
\* body, and a matched request whose body is larger than BODY_MAX_SIZE is
\* answered with status 413 - the client receives it - without any
\* middleware or handler having run.
C21_BodyCap ==
  /\ hist.bodyBytes <= BODY_MAX_SIZE
  /\ (BodyRead /\ SumSeq(req.chunks) > BODY_MAX_SIZE /\ Finished) =>
        /\ res.status = 413
        /\ ~hist.destroyed
        /\ hist.started = <<>>

C22_ErrorAlwaysAnswered ==
  hist.signalled =>
     /\ ~hist.senderFailed
     /\ ~unhandled
     /\ pc # "crashed"
     /\ Finished => res.headersSent /\ res.status \in 100..599

\* C23: a matched request whose steps have all returned has been answered:
\* once handler has returned and every invocation of next() has settled -
\* the state in which nothing more happens for the request - a response
\* has been sent, also when a step returned without calling next() and
\* without sending.
C23_AnsweredWhenFinished ==
  (/\ pc = "done"
   /\ match.found
   /\ \A n \in DOMAIN frames : frames[n].st = "done") => res.headersSent

\* C24: the elements of the chain start at most once and in chain order,
\* and every element after the first is started by the next() call of the
\* element directly before it, however often and however (awaited or not)
\* the steps call next().
C24_StartedByPredecessor ==
  /\ \A k \in DOMAIN hist.started : hist.started[k] = k
  /\ \A n \in DOMAIN frames : frames[n].caller = n - 1

\* C25: once a response has been sent no further chain element is started,
\* the response is not written again, and no error raised from then on
\* arrives at handler's catch block, which would hand it to the error
\* sender: an error raised after the response is dropped.
C25_StopAfterSent ==
  [][res.headersSent =>
        /\ hist'.started = hist.started
        /\ res' = res
        /\ pc' = "catch" => pc = "catch"]_vars

\* a step raised after the response was sent, the error was dropped, and
\* the rest of the chain never started
C25_Witness ==
  /\ Finished /\ pc = "done"
  /\ res.headersSent /\ res.by = "step" /\ res.writeHeads = 1
  /\ \E n \in DOMAIN frames : frames[n].exc = Error("boom")
  /\ Len(hist.started) < Len(chain)
  /\ \E n \in DOMAIN frames : frames[n].ops >= 2

(***************************************************************************)
(* Properties of the cache locks.                                          *)
(***************************************************************************)
\* C26: every public operation of the cache (set, get, delete, clear) comes
\* to an end and leaves the lock free, whatever the state it starts in: no
\* operation waits for ever with the lock held, shutting out the
\* operations after it.
C26_OperationsComplete ==
  /\ ~cache.lock
  /\ \A k \in DOMAIN clog : clog[k].status \in {"returned", "threw"}

\* the operations that hold the store's lock
Holders == {k \in DOMAIN ops : ops[k].pc \in {"acquired", "inside", "finally", "hung"}}

\* C27: at most one public operation of the store is in its critical
\* section at any time, with the store's lock held from before its body to
\* its end, and no operation finds at its end a store other than the one
\* its body started with: overlapping operations take effect one at a
\* time, in the order in which they got the lock.
C27_MutualExclusion ==
  /\ Cardinality(Holders) <= 1
  /\ Holders # {} => cache.lock
  /\ \A k \in DOMAIN ops : ~ops[k].interfered

\* two operations overlapped: the second was called while the first held
\* the lock, waited, and both completed
C27_Witness ==
  \E j, k \in DOMAIN ops :
     /\ j < k
     /\ ops[j].pc = "done" /\ ops[k].pc = "done"
     /\ ops[k].waited
     /\ Len(clog) >= 2

(***************************************************************************)
(* Properties of the rate limiter: the end of a window.                    *)
(***************************************************************************)
\* C28: fixed window without strictWindow, requests one after the other: a
\* request that finds a record whose window started more than the window's
\* length ago resets it to counter 1 and its own time and is allowed, so
\* after every request the record's start is at most one window old.
C28_StaleWindowReset ==
  (/\ rl.algorithm = "fixed-window"
   /\ ~rl.fixedWindowOptions.strictWindow
   /\ ~rlog.overlapped
   /\ calls = <<>>
   /\ rlog.last.kind \in {"allowed", "rejected"}
   /\ store["ip1"].ref # 0)
    => LET stored == heap[store["ip1"].ref]
           windowMs == rl.options.timeWindowSeconds * 1000
       IN  stored.start >= rlog.lastAt - windowMs

\* C29: requests one after the other: when the last answer for the key was a
\* rejection with reset time r (in seconds) and the next request arrives at
\* r or later, that request is allowed; the wait announced by Retry-After is
\* enough.
C29_AllowedAfterReset ==
  [][(/\ rl.algorithm # "none"
      /\ ~rlog.overlapped
      /\ rlog.last.kind = "rejected"
      /\ Len(calls) = 1
      /\ calls' = <<>>
      /\ GE(calls[1].now, rlog.last.resetTime * 1000))
       => rlog'.last.kind = "allowed"]_vars

(***************************************************************************)
(* Properties of the error sender.                                         *)
(***************************************************************************)
\* the status and body the rules of the error sender give, first match wins:
\* no argument, numeric status code, typed framework error, generic error
\* with an integer message, generic error with a reason phrase, anything else
RuleOf(args) ==
  IF Len(args) = 0 THEN [status |-> 500, body |-> "Internal Server Error"]
  ELSE LET a == args[1] IN
    IF isStatusCode(a)
    THEN [status |-> a.code,
          body |-> IF Len(args) > 1 THEN args[2].msg ELSE toStatusMessage(a.code)]
    ELSE IF a.k = "tej" THEN [status |-> a.code, body |-> a.msg]
    ELSE IF a.k = "err" /\ parseInt(a.msg) # NaN
    THEN [status |-> parseInt(a.msg), body |-> toStatusMessage(parseInt(a.msg))]
    ELSE IF a.k = "err" /\ toStatusCode(a.msg) # 0
    THEN [status |-> toStatusCode(a.msg), body |-> a.msg]
    ELSE [status |-> 500, body |-> toString(a)]

\* C31: the first call of ammo.throw on a response answers with the status of
\* the first rule that matches its arguments, in the order: no argument,
\* numeric status code, typed framework error, generic error with an integer
\* message, generic error with a known reason phrase, any other value (500
\* with the value's string form as body).
C31_SenderPrecedence ==
  hist.senderCalls = 1
    => /\ res.headersSent
       /\ res.status = RuleOf(hist.thrown).status
       /\ (Len(hist.thrown) = 1 /\ hist.thrown[1].k \in {"str", "num", "nullish"}
            /\ ~isStatusCode(hist.thrown[1]))
           => res.body = toString(hist.thrown[1])

(***************************************************************************)
(* Properties of the registry.                                             *)
(***************************************************************************)
\* C32: every endpoint in the registry has a handler that is a function of
\* one argument; no registration leaves an endpoint without a handler, so the
\* endpoint a request matches has a last step to run.
C32_EndpointHasHandler ==
  /\ \A k \in DOMAIN targets :
       targets[k].handler # Null /\ isShootValid(targets[k].handler)
  /\ (match.found /\ pc \in {"enhance", "chain"})
       => targets[match.idx].handler # Null

\* C33: the registry changes only before the listener serves: when requests
\* are accepted every endpoint of the target files is registered, and no
\* registration happens while a request is being dispatched.
C33_RegistryFrozen ==
  /\ [](phase = "serving" =>
          boot.readdir = "done" /\ boot.imported = TargetFiles)
  /\ [][targets' # targets => phase = "startup" /\ pc = "idle"]_vars

(***************************************************************************)
(* Properties of the database manager.                                     *)
(***************************************************************************)
\* C34: hasConnection(type).initializing is true exactly while a call of
\* initializeConnection(type) is in flight, however the calls end and also
\* when calls for the same type overlap.
C34_InitializingWhileInFlight ==
  \A t \in Types :
    db.initializing[t] <=> (\E c \in DOMAIN db.inflight : db.inflight[c].type = t)

\* C35: a connection that fails to initialize is only logged, the process
\* goes on; a handler that then asks for the missing connection has its
\* request answered with status 500.
C35_FailedInitSurvives ==
  /\ db.failed => ~unhandled /\ pc # "crashed"
  /\ (hist.noConnection /\ res.headersSent) => res.status = 500

\* C36: a limiter with the redis store that is constructed after withRedis
\* was called gets the Redis connection and does not throw; the construction
\* throws only when withRedis was never called.
C36_LimiterAfterWithRedis ==
  boot.limiter.store = "redis"
    => /\ boot.limiter.exc # NoExc <=> ~boot.limiter.afterWithRedis
       /\ boot.limiter.afterWithRedis => boot.limiter.client # 0

(***************************************************************************)
(* Properties of the cache: eviction.                                      *)
(***************************************************************************)
\* C37: the global eviction of a set stops only when there is room for the
\* new entry under the store's size in bytes, or when no namespace has a
\* tail left; so after a set that returned, the size the store counts is
\* within its limit unless the eviction ended for want of a tail.
C37_GlobalEvictionStops ==
  (/\ clog # <<>>
   /\ clog[Len(clog)].op = "set"
   /\ clog[Len(clog)].status = "returned")
    => \/ cache.globalSize <= getMaxCacheSizeInBytes(cache.maxSize).bytes
       \/ ~cache.tailsAtExit

C39_ParamMatch ==
  LET url == standardizePath(req.url)
      us == Segments(url)
      ps(k) == Segments(targets[k].path)
      qualifies(k) ==
        /\ Len(ps(k)) = Len(us)
        /\ \A j \in 1..Len(ps(k)) : ps(k)[j][1] # ":" => ps(k)[j] = us[j]
      Q == {k \in 1..Len(targets) : qualifies(k)}
  IN  (Dispatched /\ \A k \in 1..Len(targets) : targets[k].path # url)
        => IF Q = {}
           THEN ~match.found
           ELSE /\ match.found
                /\ match.idx \in Q
                /\ \A k \in Q : match.idx <= k
                /\ DOMAIN match.params =
                     {Tail(ps(match.idx)[j]) :
                        j \in {x \in 1..Len(us) : ps(match.idx)[x][1] = ":"}}
                /\ \A j \in 1..Len(us) :
                     ps(match.idx)[j][1] = ":"
                       => match.params[Tail(ps(match.idx)[j])] = us[j]

\* a request was matched through a parameter of a pattern that is not the
\* first endpoint registered
C39_Witness ==
  /\ Dispatched
  /\ match.found
  /\ match.idx > 1
  /\ targets[match.idx].path # standardizePath(req.url)
  /\ DOMAIN match.params # {}
  /\ \A nm \in DOMAIN match.params :
       \E j \in 1..Len(Segments(standardizePath(req.url))) :
         match.params[nm] = Segments(standardizePath(req.url))[j]

\* C40: normalising a path twice gives what normalising it once gives: the
\* path an endpoint was registered with (standardizePath of the argument of
\* register, unless that is empty and the path is the root) and the
\* standardized path of a request are left as they are by standardizePath.
C40_NormalizeIdempotent ==
  /\ \A k \in 1..Len(targets) :
       targets[k].path # <<"/">>
         => standardizePath(targets[k].path) = targets[k].path
  /\ Dispatched
       => standardizePath(standardizePath(req.url)) = standardizePath(req.url)

=============================================================================
